---- MODULE Spec2Model ----
(***************************************************************************)
(* A model of the room proxy: the hash-tag event pipeline                  *)
(* (base/hash_tag_event.go), the sharded storage layer (the service        *)
(* package's data models), the shard mapper (base/db.go) and the command   *)
(* dispatcher (service/service_server.go).                                 *)
(***************************************************************************)
EXTENDS Integers, Sequences, FiniteSets, TLC

(***************************************************************************)
(* Universes and bounds                                                    *)
(***************************************************************************)
HashTags == {"a", "b"}
KeyNames == {"k1", "k2"}
MaxTime == 2
MaxAggTime == 3
MaxAggEvents == 3

HashTagAccessModeRead == "read"
HashTagAccessModeWrite == "write"
AccessModes == {HashTagAccessModeRead, HashTagAccessModeWrite}

Max(S) == CHOOSE x \in S : \A y \in S : y <= x

\* type HashTagEvent struct
HashTagEvent(hashTag, keys, accessMode, accessTime) ==
    [HashTag |-> hashTag, Keys |-> keys, AccessMode |-> accessMode, AccessTime |-> accessTime]

\* the zero value of HashTagEvent: what a receive from a closed channel yields
ZeroEvent == HashTagEvent("", {}, "", 0)

\* HashTagEvent.Check: the first failing test decides the error
Check(event) ==
    IF event.HashTag = "" THEN "ErrEventHashKeyEmpty"
    ELSE IF event.AccessMode = "" THEN "ErrEventAccessModeEmpty"
    ELSE IF event.AccessTime = 0 THEN "ErrEventAccessTimeEmpty"
    ELSE IF event.Keys = {} THEN "ErrEventNoKeys"
    ELSE "nil"

EmptyMap == [h \in {} |-> ZeroEvent]

\* a plausible slip: the later event's time always replaces the saved one
aggregateEventLastTime(evs, event) ==
    IF event.HashTag \in DOMAIN evs
    THEN LET savedEvent == evs[event.HashTag]
             mode == IF savedEvent.AccessMode = HashTagAccessModeWrite
                     THEN savedEvent.AccessMode ELSE event.AccessMode
         IN  [evs EXCEPT ![event.HashTag] =
                 HashTagEvent(event.HashTag, savedEvent.Keys \cup event.Keys, mode, event.AccessTime)]
    ELSE (event.HashTag :> event) @@ evs

\* HashTagEventService.aggregateEvent: the map after merging event into it
aggregateEvent(evs, event) ==
    IF event.HashTag \in DOMAIN evs
    THEN LET savedEvent == evs[event.HashTag]
             mode == IF savedEvent.AccessMode = HashTagAccessModeWrite
                     THEN savedEvent.AccessMode ELSE event.AccessMode
             time == IF savedEvent.AccessTime > event.AccessTime
                     THEN savedEvent.AccessTime ELSE event.AccessTime
         IN  [evs EXCEPT ![event.HashTag] =
                 HashTagEvent(event.HashTag, savedEvent.Keys \cup event.Keys, mode, time)]
    ELSE (event.HashTag :> event) @@ evs

(***************************************************************************)
(* The event pipeline: HashTagEventService                                 *)
(***************************************************************************)
BufferLimit == 1
RequestMaxEvent == 2
RequestWorkerCount == 2
MaxSends == 2

Reporters == 1..RequestWorkerCount
\* the goroutines that call Stop; s1 names the one whose call begins first
Stoppers == {"s1", "s2"}

metricReportEventsError == "error.report_events"
metricSendEventPanic == "error.send_event_panic"
metricDrainEventError == "error.drain_event"
errDrainEventTimeout == "drain event timeout"

\* the events SendEvent is called with: per hash tag an earlier read of one key and
\* a later write of another, and an event that fails validation
Variants ==
    { [key |-> "k1", mode |-> HashTagAccessModeRead, time |-> 1],
      [key |-> "k2", mode |-> HashTagAccessModeWrite, time |-> MaxTime] }
ValidEvents ==
    { HashTagEvent(h, {v.key}, v.mode, v.time) : h \in HashTags, v \in Variants }
InvalidEvents ==
    { HashTagEvent("", {"k1"}, HashTagAccessModeRead, 1) }
SendInputs == ValidEvents \cup InvalidEvents

\* the outcomes of client.Post: status 200, another status, a transport error
PostOutcomes == {"200", "non200", "transportError"}

VARIABLES
    eventBuffer,            \* chan HashTagEvent: [buf, closed]
    events,                 \* map[string]HashTagEvent
    collectedEventBuffer,   \* chan HashTagEvent: [buf, closed]
    stop,                   \* the int32 stop flag
    stopCh,                 \* "open" or "closed"
    wg,                     \* the WaitGroup counter
    aggPc,                  \* aggregateEvents: "start", "loop", "done"
    colPc,                  \* collectAggregatedEvents: "start", "loop", "push", "done"
    colPending,             \* the slice _collect returned, not yet pushed
    repPc,                  \* reportEvents: "start", "batch", "post", "done"
    repBatch,               \* a reporter's events slice
    repStop,                \* a reporter's local stop flag
    stopPc,                 \* Stop: "idle", "wait", "drainCB", "drainEB", "flush", "done"
    drainErr,               \* what drainEvents returned to each Stop
    flushLeft,              \* hash tags the flush loop has not visited yet
    flushBatch,             \* the flush loop's events slice
    flushed,                \* the batches each Stop's drain POSTed and got answered
    posted,                 \* the events the reporters POSTed with status 200
    panicked,               \* "none", or the unrecovered panic that ended the process
    metric,                 \* the metrics increased so far
    sendRet,                \* what the last SendEvent returned
    nSend,                  \* SendEvent calls so far
    mapAtWait,              \* history: the map when a Stop's wg.Wait returned
    chanAtWait,             \* history: the events in the two channels at that moment
    drainIn,                \* history: the events the drain received from the channels
    exitedAtWait,           \* history: had every worker returned when wg.Wait was passed
    accepted                \* history: the events SendEvent enqueued, and whether before Stop

pvars == <<eventBuffer, events, collectedEventBuffer, stop, stopCh, wg, aggPc, colPc,
           colPending, repPc, repBatch, repStop, stopPc, drainErr, flushLeft, flushBatch,
           flushed, posted, panicked, metric, sendRet, nSend, mapAtWait, chanAtWait,
           drainIn, exitedAtWait>>

\* make(chan HashTagEvent, config.BufferLimit)
NewChan == [buf |-> <<>>, closed |-> FALSE]

SeqToSet(q) == { q[i] : i \in 1..Len(q) }

\* the orders in which a range over a Go map can deliver the set S
Perms(S) == { q \in [1..Cardinality(S) -> S] : \A i, j \in 1..Cardinality(S) : q[i] = q[j] => i = j }

\* NewHashTagEventService: the fields of the service as the constructor sets them
PipeFields ==
    /\ eventBuffer = NewChan
    /\ events = EmptyMap
    /\ collectedEventBuffer = NewChan
    /\ stop = 0
    /\ stopCh = "open"
    /\ colPending = <<>>
    /\ repBatch = [r \in Reporters |-> <<>>]
    /\ repStop = [r \in Reporters |-> FALSE]
    /\ stopPc = [s \in Stoppers |-> "idle"]
    /\ drainErr = [s \in Stoppers |-> "none"]
    /\ flushLeft = [s \in Stoppers |-> {}]
    /\ flushBatch = [s \in Stoppers |-> <<>>]
    /\ flushed = [s \in Stoppers |-> <<>>]
    /\ posted = {}
    /\ panicked = "none"
    /\ metric = {}
    /\ sendRet = "none"
    /\ nSend = 0
    /\ mapAtWait = EmptyMap
    /\ chanAtWait = {}
    /\ drainIn = {}
    /\ exitedAtWait = FALSE

\* the history of the enqueued events is kept in SpecHealthy only; elsewhere it is
\* this value, which no SendEvent produces (the zero event fails Check)
Untracked == << [event |-> ZeroEvent, beforeStop |-> FALSE] >>
NoHistory == accepted = Untracked

\* the service as NewHashTagEventService returns it: startWorkers has spawned the
\* goroutines and none has run its wg.Add(1) yet
PipeConstructed ==
    /\ PipeFields
    /\ wg = 0
    /\ aggPc = "start"
    /\ colPc = "start"
    /\ repPc = [r \in Reporters |-> "start"]

\* the service in operation: every worker has run its wg.Add(1) and is in its loop
PipeInit ==
    /\ PipeFields
    /\ wg = 2 + RequestWorkerCount
    /\ aggPc = "loop"
    /\ colPc = "loop"
    /\ repPc = [r \in Reporters |-> "batch"]

(***************************************************************************)
(* State of the other components (each has its own specification below)    *)
(***************************************************************************)
VARIABLES
    window,     \* history: the events merged into the map since it was last empty
    doc,        \* the room_data_v2 row of one hash tag
    wPc,        \* each storage writer's position
    wOp,        \* each storage writer's operation
    wTry,       \* each storage writer's loop counter i
    wVer,       \* the version each writer's Select read
    wRet,       \* what each writer's call returned
    doc0,       \* history: the row before any call
    records,    \* the accessed/written record table: primary key -> timestamp
    bulkSeen,   \* history: the timestamps upserted so far, per table kind and key
    bulkArg,    \* history: the kind and the models of the last bulk upsert
    bulkRet     \* what the last bulk upsert returned

avars == <<window>>
svars == <<doc, wPc, wOp, wTry, wVer, wRet, doc0>>
bvars == <<records, bulkSeen, bulkArg, bulkRet>>

VARIABLES
    connPc,         \* each connection: "open", "serving" (inside connServeHandler), "closed"
    cmds,           \* the commands connServeHandler's loop still has to range over
    serveStartTime, \* connServeHandler's serveStartTime
    nArrived,       \* history: how many commands the connection handed to the handler
    nWritten,       \* history: how many responses were written to the connection
    transactions,   \* transactionManager: the transaction bound to each connection
    step            \* history: what the last iteration of the loop did

dvars == <<connPc, cmds, serveStartTime, nArrived, nWritten, transactions, step>>
VARIABLES
    dbClients,      \* DBCluster.clients of the cluster a load goes to
    table,          \* the rows of room_data_v2, by hash tag
    loadArg,        \* history: the last call of loadDataByID
    loadRet,        \* what the last call of loadDataByID returned
    redisValue,     \* a RedisValue with its ExpireTs
    now,            \* the time t its expiry is asked for
    called,         \* which of IsExpired and TTL were called
    isExpiredRet,   \* what IsExpired returned
    ttlRet          \* what TTL returned

lvars == <<dbClients, table, loadArg, loadRet>>
xvars == <<redisValue, now, called, isExpiredRet, ttlRet>>
VARIABLES
    ixKey,          \* the sharding key getTableIndex is called with
    ixCount,        \* the shardingCount of the cluster, an int of the 64-bit build
    ixClients,      \* DBCluster.clients of the cluster
    ixRets,         \* what the calls of getTableIndex did, in call order
    ixModel,        \* what GetTableNameAndDBClientByModel returned
    shardConfig,    \* the DBClusterConfig NewDBClusterFromConfig is called with
    newRet,         \* what NewDBClusterFromConfig returned
    stClients,      \* DBCluster.clients of the cluster the storage calls go to
    stored,         \* the rows of the tables: documents, written and accessed records
    stCall,         \* history: the last storage call
    stRet,          \* what the last storage call returned and how many statements it issued
    nStCalls,       \* history: how many storage calls were made
    newEventArgs,   \* the arguments NewHashTagEvent is called with
    newEventRet,    \* what NewHashTagEvent returned
    keySets,        \* the *utility.StringSet values the events' Keys point to, by address
    eventsByRef,    \* service.events, each entry with the address of its Keys
    merged,         \* history: the events aggregateEvent was called with, in call order
    inWindow,       \* history: per hash tag, which of them the map's entry stands for
    collections,    \* history: what each call of _collect returned
    requestMaxEvent, \* config.EventReport.RequestMaxEvent of the service
    cxTable,        \* the rows of room_data_v2 loadDataByIDWithContext reads
    cxHashTag,      \* the hash tag it is called with
    cxCtx,          \* the context: "active", or the error it completed with
    cxReader,       \* the goroutine: "idle", "reading", "sending", "exited"
    cxResult,       \* the loadResult the goroutine hands over
    cxCaller,       \* the caller: "idle", "select", "returned"
    cxRet,          \* what loadDataByIDWithContext returned
    hkRow,          \* the room_hash_tag_keys row of the hash tag
    hkModel,        \* the model the Select of the transaction has read
    hkEvent,        \* the event upsertHashTagKeysRecordByEvent is called with
    hkTime,         \* its currentTime
    hkPc,           \* the call: "idle", "selected", "done"
    hkRet           \* what the call returned

ixvars == <<ixKey, ixCount, ixClients, ixRets, ixModel>>
cfvars == <<shardConfig, newRet>>
stvars == <<stClients, stored, stCall, stRet, nStCalls>>
evvars == <<newEventArgs, newEventRet>>
tkvars == <<keySets, eventsByRef, merged, inWindow, collections>>
rqvars == <<requestMaxEvent>>
acvars == <<accepted>>
cxvars == <<cxTable, cxHashTag, cxCtx, cxReader, cxResult, cxCaller, cxRet>>
hkvars == <<hkRow, hkModel, hkEvent, hkTime, hkPc, hkRet>>
zvars == <<cxvars, hkvars>>
hvars == <<ixvars, cfvars, stvars, evvars, tkvars>>
\* the components added after the storage ones
ovars == <<dvars, lvars, xvars, hvars, rqvars, acvars, zvars>>
vars == <<pvars, avars, svars, bvars, ovars>>

(***************************************************************************)
(* Pipeline actions                                                        *)
(***************************************************************************)
Running == panicked = "none"

\* a receive from a channel that has something to deliver: a buffered event, or
\* the zero value once the channel is closed and empty
CanRecv(ch) == ch.buf # <<>> \/ ch.closed
RecvValue(ch) == IF ch.buf # <<>> THEN Head(ch.buf) ELSE ZeroEvent
RecvOk(ch) == ch.buf # <<>>
AfterRecv(ch) == IF ch.buf # <<>> THEN [ch EXCEPT !.buf = Tail(ch.buf)] ELSE ch

\* a plausible slip: the full test is off by one, the send overruns the capacity
sendNoLimit(ch, event) ==
    IF ch.closed THEN [ch |-> ch, ret |-> "nil", panic |-> TRUE]
    ELSE IF Len(ch.buf) <= BufferLimit
    THEN [ch |-> [ch EXCEPT !.buf = Append(ch.buf, event)], ret |-> "nil", panic |-> FALSE]
    ELSE [ch |-> ch, ret |-> "full", panic |-> FALSE]

\* HashTagEventService.send: select { case eventBuffer <- event: nil; default: error },
\* with the deferred recover. A send on a closed channel panics, full or not; the
\* recovered call returns the zero value of its unnamed result, nil.
send(ch, event) ==
    IF ch.closed THEN [ch |-> ch, ret |-> "nil", panic |-> TRUE]
    ELSE IF Len(ch.buf) < BufferLimit
    THEN [ch |-> [ch EXCEPT !.buf = Append(ch.buf, event)], ret |-> "nil", panic |-> FALSE]
    ELSE [ch |-> ch, ret |-> "full", panic |-> FALSE]

\* a plausible slip: send has no deferred recover, the panic of the send on the closed
\* channel reaches the caller
SendEventNoRecover(event) ==
    /\ Running
    /\ nSend < MaxSends
    /\ nSend' = nSend + 1
    /\ IF Check(event) # "nil"
       THEN /\ sendRet' = Check(event)
            /\ UNCHANGED <<eventBuffer, metric, panicked>>
       ELSE LET r == send(eventBuffer, event)
            IN  /\ eventBuffer' = r.ch
                /\ sendRet' = r.ret
                /\ panicked' = IF r.panic THEN "send on closed channel" ELSE panicked
                /\ UNCHANGED metric
    /\ accepted' = IF accepted # Untracked /\ eventBuffer' # eventBuffer
                   THEN Append(accepted, [event |-> event, beforeStop |-> stop = 0])
                   ELSE accepted
    /\ UNCHANGED <<events, collectedEventBuffer, stop, stopCh, wg, aggPc, colPc, colPending,
                   repPc, repBatch, repStop, stopPc, drainErr, flushLeft, flushBatch, flushed,
                   posted, mapAtWait, chanAtWait, drainIn, exitedAtWait>>
    /\ UNCHANGED <<avars, svars, bvars, dvars, lvars, xvars, hvars, rqvars, zvars>>

\* HashTagEventService.SendEvent
SendEvent(event) ==
    /\ Running
    /\ nSend < MaxSends
    /\ nSend' = nSend + 1
    /\ IF Check(event) # "nil"
       THEN /\ sendRet' = Check(event)
            /\ UNCHANGED <<eventBuffer, metric>>
       ELSE LET r == send(eventBuffer, event)
            IN  /\ eventBuffer' = r.ch
                /\ sendRet' = r.ret
                /\ metric' = IF r.panic THEN metric \cup {metricSendEventPanic} ELSE metric
    /\ accepted' = IF accepted # Untracked /\ eventBuffer' # eventBuffer
                   THEN Append(accepted, [event |-> event, beforeStop |-> stop = 0])
                   ELSE accepted
    /\ UNCHANGED <<events, collectedEventBuffer, stop, stopCh, wg, aggPc, colPc, colPending,
                   repPc, repBatch, repStop, stopPc, drainErr, flushLeft, flushBatch, flushed,
                   posted, panicked, mapAtWait, chanAtWait, drainIn, exitedAtWait>>
    /\ UNCHANGED <<avars, svars, bvars, dvars, lvars, xvars, hvars, rqvars, zvars>>

\* aggregateEvents: wg.Add(1), the first statement of the goroutine
AggStart ==
    /\ Running
    /\ aggPc = "start"
    /\ wg' = wg + 1
    /\ aggPc' = "loop"
    /\ UNCHANGED <<eventBuffer, events, collectedEventBuffer, stop, stopCh, colPc, colPending,
                   repPc, repBatch, repStop, stopPc, drainErr, flushLeft, flushBatch, flushed,
                   posted, panicked, metric, sendRet, nSend, mapAtWait, chanAtWait, drainIn,
                   exitedAtWait>>
    /\ UNCHANGED <<avars, svars, bvars, ovars>>

\* aggregateEvents: case event := <-service.eventBuffer. A closed and empty channel
\* delivers the zero event, whose Keys is a nil *StringSet: merging it onto a saved
\* entry calls a method through the nil pointer.
AggRecv ==
    /\ Running
    /\ aggPc = "loop"
    /\ CanRecv(eventBuffer)
    /\ LET event == RecvValue(eventBuffer)
       IN  IF ~RecvOk(eventBuffer) /\ event.HashTag \in DOMAIN events
           THEN /\ panicked' = "nil pointer dereference"
                /\ UNCHANGED <<events, eventBuffer>>
           ELSE /\ events' = aggregateEvent(events, event)
                /\ eventBuffer' = AfterRecv(eventBuffer)
                /\ UNCHANGED panicked
    /\ UNCHANGED <<collectedEventBuffer, stop, stopCh, wg, aggPc, colPc, colPending,
                   repPc, repBatch, repStop, stopPc, drainErr, flushLeft, flushBatch, flushed,
                   posted, metric, sendRet, nSend, mapAtWait, chanAtWait, drainIn, exitedAtWait>>
    /\ UNCHANGED <<avars, svars, bvars, ovars>>

\* aggregateEvents: case <-service.stopCh, then the deferred wg.Done()
AggStop ==
    /\ Running
    /\ aggPc = "loop"
    /\ stopCh = "closed"
    /\ aggPc' = "done"
    /\ wg' = wg - 1
    /\ UNCHANGED <<eventBuffer, events, collectedEventBuffer, stop, stopCh, colPc, colPending,
                   repPc, repBatch, repStop, stopPc, drainErr, flushLeft, flushBatch, flushed,
                   posted, panicked, metric, sendRet, nSend, mapAtWait, chanAtWait, drainIn,
                   exitedAtWait>>
    /\ UNCHANGED <<avars, svars, bvars, ovars>>

\* collectAggregatedEvents: wg.Add(1)
ColStart ==
    /\ Running
    /\ colPc = "start"
    /\ wg' = wg + 1
    /\ colPc' = "loop"
    /\ UNCHANGED <<eventBuffer, events, collectedEventBuffer, stop, stopCh, aggPc, colPending,
                   repPc, repBatch, repStop, stopPc, drainErr, flushLeft, flushBatch, flushed,
                   posted, panicked, metric, sendRet, nSend, mapAtWait, chanAtWait, drainIn,
                   exitedAtWait>>
    /\ UNCHANGED <<avars, svars, bvars, ovars>>

\* _collect: under the mutex, every entry of the map moves to the returned slice, in
\* the order the range over the map delivers them
_collect(evs) == { [i \in 1..Len(q) |-> evs[q[i]]] : q \in Perms(DOMAIN evs) }

\* collectAggregatedEvents: case <-ticker.C, up to the first channel send
ColTick ==
    /\ Running
    /\ colPc = "loop"
    /\ DOMAIN events # {}
    /\ \E slice \in _collect(events) :
          /\ colPending' = slice
          /\ events' = EmptyMap
          /\ colPc' = "push"
    /\ UNCHANGED <<eventBuffer, collectedEventBuffer, stop, stopCh, wg, aggPc,
                   repPc, repBatch, repStop, stopPc, drainErr, flushLeft, flushBatch, flushed,
                   posted, panicked, metric, sendRet, nSend, mapAtWait, chanAtWait, drainIn,
                   exitedAtWait>>
    /\ UNCHANGED <<avars, svars, bvars, ovars>>

\* collectAggregatedEvents: service.collectedEventBuffer <- event, a plain send: it
\* blocks while the buffer is full and panics on a closed channel
ColPush ==
    /\ Running
    /\ colPc = "push"
    /\ IF collectedEventBuffer.closed
       THEN /\ panicked' = "send on closed channel"
            /\ UNCHANGED <<collectedEventBuffer, colPending, colPc>>
       ELSE /\ Len(collectedEventBuffer.buf) < BufferLimit
            /\ collectedEventBuffer' =
                  [collectedEventBuffer EXCEPT !.buf = Append(@, Head(colPending))]
            /\ colPending' = Tail(colPending)
            /\ colPc' = IF Tail(colPending) = <<>> THEN "loop" ELSE "push"
            /\ UNCHANGED panicked
    /\ UNCHANGED <<eventBuffer, events, stop, stopCh, wg, aggPc,
                   repPc, repBatch, repStop, stopPc, drainErr, flushLeft, flushBatch, flushed,
                   posted, metric, sendRet, nSend, mapAtWait, chanAtWait, drainIn, exitedAtWait>>
    /\ UNCHANGED <<avars, svars, bvars, ovars>>

\* collectAggregatedEvents: case <-service.stopCh, then wg.Done()
ColStop ==
    /\ Running
    /\ colPc = "loop"
    /\ stopCh = "closed"
    /\ colPc' = "done"
    /\ wg' = wg - 1
    /\ UNCHANGED <<eventBuffer, events, collectedEventBuffer, stop, stopCh, aggPc, colPending,
                   repPc, repBatch, repStop, stopPc, drainErr, flushLeft, flushBatch, flushed,
                   posted, panicked, metric, sendRet, nSend, mapAtWait, chanAtWait, drainIn,
                   exitedAtWait>>
    /\ UNCHANGED <<avars, svars, bvars, ovars>>

\* _reportEvents: what the call does with a batch when client.Post ends with outcome.
\* An empty batch returns nil before any request. On a transport error resp is nil
\* and the deferred closure reads resp.Body: a nil pointer dereference.
_reportEvents(batch, outcome) ==
    IF Len(batch) = 0 THEN "nil"
    ELSE IF outcome = "transportError" THEN "panic"
    ELSE IF outcome = "200" THEN "nil"
    ELSE "response error"

\* whether _reportEvents delivered the batch (a request answered 200)
Delivered(batch, outcome) == Len(batch) > 0 /\ outcome = "200"

\* reportEvents: wg.Add(1), and the first batch begins
RepStart(r) ==
    /\ Running
    /\ repPc[r] = "start"
    /\ wg' = wg + 1
    /\ repPc' = [repPc EXCEPT ![r] = "batch"]
    /\ UNCHANGED <<eventBuffer, events, collectedEventBuffer, stop, stopCh, aggPc, colPc,
                   colPending, repBatch, repStop, stopPc, drainErr, flushLeft, flushBatch,
                   flushed, posted, panicked, metric, sendRet, nSend, mapAtWait, chanAtWait,
                   drainIn, exitedAtWait>>
    /\ UNCHANGED <<avars, svars, bvars, ovars>>

\* a plausible slip: the count test is off by one, a batch takes one event too many
RepRecvOverrun(r) ==
    /\ Running
    /\ repPc[r] = "batch"
    /\ CanRecv(collectedEventBuffer)
    /\ IF ~RecvOk(collectedEventBuffer)
       THEN /\ repPc' = [repPc EXCEPT ![r] = "post"]
            /\ UNCHANGED <<repBatch, collectedEventBuffer>>
       ELSE /\ repBatch' = [repBatch EXCEPT ![r] = Append(@, Head(collectedEventBuffer.buf))]
            /\ collectedEventBuffer' = AfterRecv(collectedEventBuffer)
            /\ repPc' = [repPc EXCEPT ![r] =
                            IF Len(repBatch[r]) + 1 > requestMaxEvent THEN "post" ELSE "batch"]
    /\ UNCHANGED <<eventBuffer, events, stop, stopCh, wg, aggPc, colPc, colPending, repStop,
                   stopPc, drainErr, flushLeft, flushBatch, flushed, posted, panicked, metric,
                   sendRet, nSend, mapAtWait, chanAtWait, drainIn, exitedAtWait>>
    /\ UNCHANGED <<avars, svars, bvars, ovars>>

\* reportEvents: case event, ok := <-service.collectedEventBuffer
RepRecv(r) ==
    /\ Running
    /\ repPc[r] = "batch"
    /\ CanRecv(collectedEventBuffer)
    /\ IF ~RecvOk(collectedEventBuffer)
       THEN /\ repPc' = [repPc EXCEPT ![r] = "post"]
            /\ UNCHANGED <<repBatch, collectedEventBuffer>>
       ELSE /\ repBatch' = [repBatch EXCEPT ![r] = Append(@, Head(collectedEventBuffer.buf))]
            /\ collectedEventBuffer' = AfterRecv(collectedEventBuffer)
            /\ repPc' = [repPc EXCEPT ![r] =
                            IF Len(repBatch[r]) + 1 >= requestMaxEvent THEN "post" ELSE "batch"]
    /\ UNCHANGED <<eventBuffer, events, stop, stopCh, wg, aggPc, colPc, colPending, repStop,
                   stopPc, drainErr, flushLeft, flushBatch, flushed, posted, panicked, metric,
                   sendRet, nSend, mapAtWait, chanAtWait, drainIn, exitedAtWait>>
    /\ UNCHANGED <<avars, svars, bvars, ovars>>

\* reportEvents: case <-ticker.C (requestMaxWaitDuration elapsed)
RepTick(r) ==
    /\ Running
    /\ repPc[r] = "batch"
    /\ repPc' = [repPc EXCEPT ![r] = "post"]
    /\ UNCHANGED <<eventBuffer, events, collectedEventBuffer, stop, stopCh, wg, aggPc, colPc,
                   colPending, repBatch, repStop, stopPc, drainErr, flushLeft, flushBatch,
                   flushed, posted, panicked, metric, sendRet, nSend, mapAtWait, chanAtWait,
                   drainIn, exitedAtWait>>
    /\ UNCHANGED <<avars, svars, bvars, ovars>>

\* reportEvents: case <-service.stopCh
RepStopSignal(r) ==
    /\ Running
    /\ repPc[r] = "batch"
    /\ stopCh = "closed"
    /\ repStop' = [repStop EXCEPT ![r] = TRUE]
    /\ repPc' = [repPc EXCEPT ![r] = "post"]
    /\ UNCHANGED <<eventBuffer, events, collectedEventBuffer, stop, stopCh, wg, aggPc, colPc,
                   colPending, repBatch, stopPc, drainErr, flushLeft, flushBatch,
                   flushed, posted, panicked, metric, sendRet, nSend, mapAtWait, chanAtWait,
                   drainIn, exitedAtWait>>
    /\ UNCHANGED <<avars, svars, bvars, ovars>>

\* reportEvents: _reportEvents(events), recordReportEventsError on an error, then the
\* next batch, or the return (wg.Done) when stop is set
RepPost(r) ==
    /\ Running
    /\ repPc[r] = "post"
    /\ \E outcome \in PostOutcomes :
          LET res == _reportEvents(repBatch[r], outcome)
          IN  IF res = "panic"
              THEN /\ panicked' = "nil pointer dereference"
                   /\ UNCHANGED <<posted, metric, repBatch, repPc, wg>>
              ELSE /\ posted' = IF Delivered(repBatch[r], outcome)
                                THEN posted \cup SeqToSet(repBatch[r]) ELSE posted
                   /\ metric' = IF res # "nil" THEN metric \cup {metricReportEventsError}
                                ELSE metric
                   /\ repBatch' = [repBatch EXCEPT ![r] = <<>>]
                   /\ repPc' = [repPc EXCEPT ![r] = IF repStop[r] THEN "done" ELSE "batch"]
                   /\ wg' = IF repStop[r] THEN wg - 1 ELSE wg
                   /\ UNCHANGED panicked
    /\ UNCHANGED <<eventBuffer, events, collectedEventBuffer, stop, stopCh, aggPc, colPc,
                   colPending, repStop, stopPc, drainErr, flushLeft, flushBatch,
                   flushed, sendRet, nSend, mapAtWait, chanAtWait, drainIn, exitedAtWait>>
    /\ UNCHANGED <<avars, svars, bvars, ovars>>

WorkersExited ==
    /\ aggPc = "done"
    /\ colPc = "done"
    /\ \A r \in Reporters : repPc[r] = "done"

\* Stop: the CompareAndSwap on the stop flag and, when it wins, close(stopCh)
StopSignal(s) ==
    /\ Running
    /\ stopPc[s] = "idle"
    /\ s = "s2" => stopPc["s1"] # "idle"
    /\ IF stop = 0
       THEN stop' = 1 /\ stopCh' = "closed"
       ELSE UNCHANGED <<stop, stopCh>>
    /\ stopPc' = [stopPc EXCEPT ![s] = "wait"]
    /\ UNCHANGED <<eventBuffer, events, collectedEventBuffer, wg, aggPc, colPc, colPending,
                   repPc, repBatch, repStop, drainErr, flushLeft, flushBatch, flushed,
                   posted, panicked, metric, sendRet, nSend, mapAtWait, chanAtWait, drainIn,
                   exitedAtWait>>
    /\ UNCHANGED <<avars, svars, bvars, ovars>>

\* close(ch): closing a closed channel panics
close(ch) ==
    IF ch.closed THEN [ch |-> ch, panic |-> TRUE]
    ELSE [ch |-> [ch EXCEPT !.closed = TRUE], panic |-> FALSE]

\* Stop: service.wg.Wait() returns when the counter is zero; drainEvents then starts
\* the timer and closeAndEmptifyChannelWithTimer closes collectedEventBuffer
StopWait(s) ==
    /\ Running
    /\ stopPc[s] = "wait"
    /\ wg = 0
    /\ LET c == close(collectedEventBuffer)
       IN  IF c.panic
           THEN /\ panicked' = "close of closed channel"
                /\ UNCHANGED <<collectedEventBuffer, stopPc, mapAtWait, chanAtWait, exitedAtWait>>
           ELSE /\ collectedEventBuffer' = c.ch
                /\ stopPc' = [stopPc EXCEPT ![s] = "drainCB"]
                /\ mapAtWait' = events
                /\ chanAtWait' = SeqToSet(eventBuffer.buf) \cup SeqToSet(collectedEventBuffer.buf)
                /\ exitedAtWait' = WorkersExited
                /\ UNCHANGED panicked
    /\ UNCHANGED <<eventBuffer, events, stop, stopCh, wg, aggPc, colPc, colPending,
                   repPc, repBatch, repStop, drainErr, flushLeft, flushBatch, flushed,
                   posted, metric, sendRet, nSend, drainIn>>
    /\ UNCHANGED <<avars, svars, bvars, ovars>>

\* a plausible slip: the timeout is recorded and the drain goes on to the flush
DrainTimeoutThenFlush(s) ==
    /\ Running
    /\ stopPc[s] \in {"drainCB", "drainEB"}
    /\ drainErr' = [drainErr EXCEPT ![s] = errDrainEventTimeout]
    /\ metric' = metric \cup {metricDrainEventError}
    /\ stopPc' = [stopPc EXCEPT ![s] = "flush"]
    /\ flushLeft' = [flushLeft EXCEPT ![s] = DOMAIN events]
    /\ UNCHANGED <<eventBuffer, events, collectedEventBuffer, stop, stopCh, wg, aggPc, colPc,
                   colPending, repPc, repBatch, repStop, flushBatch, flushed,
                   posted, panicked, sendRet, nSend, mapAtWait, chanAtWait, drainIn,
                   exitedAtWait>>
    /\ UNCHANGED <<avars, svars, bvars, ovars>>

\* closeAndEmptifyChannelWithTimer: case <-timer.C. drainEvents returns
\* errDrainEventTimeout at once and Stop records it (recordDrainError). The timer is
\* ready from the start when DrainDuration is 0 and at some later moment otherwise; a
\* select with several ready cases takes any of them.
DrainTimeout(s) ==
    /\ Running
    /\ stopPc[s] \in {"drainCB", "drainEB"}
    /\ drainErr' = [drainErr EXCEPT ![s] = errDrainEventTimeout]
    /\ metric' = metric \cup {metricDrainEventError}
    /\ stopPc' = [stopPc EXCEPT ![s] = "done"]
    /\ UNCHANGED <<eventBuffer, events, collectedEventBuffer, stop, stopCh, wg, aggPc, colPc,
                   colPending, repPc, repBatch, repStop, flushLeft, flushBatch, flushed,
                   posted, panicked, sendRet, nSend, mapAtWait, chanAtWait, drainIn,
                   exitedAtWait>>
    /\ UNCHANGED <<avars, svars, bvars, ovars>>

\* closeAndEmptifyChannelWithTimer(timer, collectedEventBuffer): case event, ok := <-ch.
\* When the channel is empty the loop ends and the second call closes eventBuffer.
DrainCollected(s) ==
    /\ Running
    /\ stopPc[s] = "drainCB"
    /\ IF RecvOk(collectedEventBuffer)
       THEN /\ events' = aggregateEvent(events, Head(collectedEventBuffer.buf))
            /\ drainIn' = drainIn \cup {Head(collectedEventBuffer.buf)}
            /\ collectedEventBuffer' = AfterRecv(collectedEventBuffer)
            /\ UNCHANGED <<eventBuffer, stopPc, panicked>>
       ELSE LET c == close(eventBuffer)
            IN  /\ UNCHANGED <<events, drainIn, collectedEventBuffer>>
                /\ IF c.panic
                   THEN /\ panicked' = "close of closed channel"
                        /\ UNCHANGED <<eventBuffer, stopPc>>
                   ELSE /\ eventBuffer' = c.ch
                        /\ stopPc' = [stopPc EXCEPT ![s] = "drainEB"]
                        /\ UNCHANGED panicked
    /\ UNCHANGED <<stop, stopCh, wg, aggPc, colPc, colPending, repPc, repBatch, repStop,
                   drainErr, flushLeft, flushBatch, flushed, posted, metric, sendRet,
                   nSend, mapAtWait, chanAtWait, exitedAtWait>>
    /\ UNCHANGED <<avars, svars, bvars, ovars>>

\* a plausible slip: the drain empties eventBuffer without aggregating what it reads
DrainEventDrop(s) ==
    /\ Running
    /\ stopPc[s] = "drainEB"
    /\ IF RecvOk(eventBuffer)
       THEN /\ drainIn' = drainIn \cup {Head(eventBuffer.buf)}
            /\ eventBuffer' = AfterRecv(eventBuffer)
            /\ UNCHANGED <<events, stopPc, flushLeft, flushBatch>>
       ELSE /\ stopPc' = [stopPc EXCEPT ![s] = "flush"]
            /\ flushLeft' = [flushLeft EXCEPT ![s] = DOMAIN events]
            /\ flushBatch' = [flushBatch EXCEPT ![s] = <<>>]
            /\ UNCHANGED <<events, drainIn, eventBuffer>>
    /\ UNCHANGED <<collectedEventBuffer, stop, stopCh, wg, aggPc, colPc, colPending, repPc,
                   repBatch, repStop, drainErr, flushed, posted, panicked, metric,
                   sendRet, nSend, mapAtWait, chanAtWait, exitedAtWait>>
    /\ UNCHANGED <<avars, svars, bvars, ovars>>

\* closeAndEmptifyChannelWithTimer(timer, eventBuffer): case event, ok := <-ch. When
\* the channel is empty the flush loop over service.events begins.
DrainEvent(s) ==
    /\ Running
    /\ stopPc[s] = "drainEB"
    /\ IF RecvOk(eventBuffer)
       THEN /\ events' = aggregateEvent(events, Head(eventBuffer.buf))
            /\ drainIn' = drainIn \cup {Head(eventBuffer.buf)}
            /\ eventBuffer' = AfterRecv(eventBuffer)
            /\ UNCHANGED <<stopPc, flushLeft, flushBatch>>
       ELSE /\ stopPc' = [stopPc EXCEPT ![s] = "flush"]
            /\ flushLeft' = [flushLeft EXCEPT ![s] = DOMAIN events]
            /\ flushBatch' = [flushBatch EXCEPT ![s] = <<>>]
            /\ UNCHANGED <<events, drainIn, eventBuffer>>
    /\ UNCHANGED <<collectedEventBuffer, stop, stopCh, wg, aggPc, colPc, colPending, repPc,
                   repBatch, repStop, drainErr, flushed, posted, panicked, metric,
                   sendRet, nSend, mapAtWait, chanAtWait, exitedAtWait>>
    /\ UNCHANGED <<avars, svars, bvars, ovars>>

\* the end of drainEvents with error err ("nil" for none), and Stop's recordDrainError
DrainReturn(s, err) ==
    /\ drainErr' = [drainErr EXCEPT ![s] = err]
    /\ metric' = IF err # "nil" THEN metric \cup {metricDrainEventError} ELSE metric
    /\ stopPc' = [stopPc EXCEPT ![s] = "done"]

\* drainEvents: one iteration of `for _, event := range service.events`: the event is
\* appended and a batch of requestMaxEvent events is reported; an error ends the drain
FlushNext(s) ==
    /\ Running
    /\ stopPc[s] = "flush"
    /\ \E h \in flushLeft[s] \cap DOMAIN events :
          LET batch == Append(flushBatch[s], events[h])
          IN  /\ flushLeft' = [flushLeft EXCEPT ![s] = @ \ {h}]
              /\ IF Len(batch) = requestMaxEvent
                 THEN \E outcome \in PostOutcomes :
                         LET res == _reportEvents(batch, outcome)
                         IN  IF res = "panic"
                             THEN /\ panicked' = "nil pointer dereference"
                                  /\ UNCHANGED <<flushBatch, flushed, drainErr, metric, stopPc>>
                             ELSE IF res # "nil"
                             THEN /\ DrainReturn(s, res)
                                  /\ flushed' = [flushed EXCEPT ![s] = Append(@, batch)]
                                  /\ UNCHANGED <<flushBatch, panicked>>
                             ELSE /\ flushed' = [flushed EXCEPT ![s] = Append(@, batch)]
                                  /\ flushBatch' = [flushBatch EXCEPT ![s] = <<>>]
                                  /\ UNCHANGED <<drainErr, metric, stopPc, panicked>>
                 ELSE /\ flushBatch' = [flushBatch EXCEPT ![s] = batch]
                      /\ UNCHANGED <<flushed, drainErr, metric, stopPc, panicked>>
    /\ UNCHANGED <<eventBuffer, events, collectedEventBuffer, stop, stopCh, wg, aggPc, colPc,
                   colPending, repPc, repBatch, repStop, posted, sendRet, nSend,
                   mapAtWait, chanAtWait, drainIn, exitedAtWait>>
    /\ UNCHANGED <<avars, svars, bvars, ovars>>

\* drainEvents: after the loop, _reportEvents(events) for the last, partial batch
FlushLast(s) ==
    /\ Running
    /\ stopPc[s] = "flush"
    /\ flushLeft[s] \cap DOMAIN events = {}
    /\ \E outcome \in PostOutcomes :
          LET res == _reportEvents(flushBatch[s], outcome)
          IN  IF res = "panic"
              THEN /\ panicked' = "nil pointer dereference"
                   /\ UNCHANGED <<flushBatch, flushed, drainErr, metric, stopPc>>
              ELSE /\ DrainReturn(s, res)
                   /\ flushed' = IF Len(flushBatch[s]) > 0
                                 THEN [flushed EXCEPT ![s] = Append(@, flushBatch[s])]
                                 ELSE flushed
                   /\ flushBatch' = [flushBatch EXCEPT ![s] = <<>>]
                   /\ UNCHANGED panicked
    /\ UNCHANGED <<eventBuffer, events, collectedEventBuffer, stop, stopCh, wg, aggPc, colPc,
                   colPending, repPc, repBatch, repStop, flushLeft, posted, sendRet,
                   nSend, mapAtWait, chanAtWait, drainIn, exitedAtWait>>
    /\ UNCHANGED <<avars, svars, bvars, ovars>>

(***************************************************************************)
(* The state of a component that a specification leaves out                *)
(***************************************************************************)
Writers == {"w1", "w2", "w3"}
NoDoc == [exists |-> FALSE, value |-> [k \in {} |-> ""], version |-> 0]
NoOp == [kind |-> "none"]

AggIdle == window = {}
StoreIdle ==
    /\ doc = NoDoc
    /\ wPc = [w \in Writers |-> "idle"]
    /\ wOp = [w \in Writers |-> NoOp]
    /\ wTry = [w \in Writers |-> 0]
    /\ wVer = [w \in Writers |-> 0]
    /\ wRet = [w \in Writers |-> "none"]
    /\ doc0 = NoDoc
BulkIdle ==
    /\ records = [written |-> [k \in {} |-> 0], accessed |-> [k \in {} |-> 0]]
    /\ bulkSeen = [written |-> [k \in {} |-> {}], accessed |-> [k \in {} |-> {}]]
    /\ bulkArg = [kind |-> "none", models |-> <<>>]
    /\ bulkRet = "none"

\* the connections of the server
Conns == {"c1", "c2"}
\* a nil *commands.Transaction
NoTransaction == [state |-> "nil", closed |-> FALSE]
NoStep == [conn |-> "none"]
ServeIdle ==
    /\ connPc = [c \in Conns |-> "closed"]
    /\ cmds = [c \in Conns |-> <<>>]
    /\ serveStartTime = [c \in Conns |-> 0]
    /\ nArrived = [c \in Conns |-> 0]
    /\ nWritten = [c \in Conns |-> 0]
    /\ transactions = [c \in Conns |-> NoTransaction]
    /\ step = NoStep
\* a nil *roomDataModelV2
NoModel == [HashTag |-> "", Value |-> EmptyMap, Version |-> 0]
NoLoad == [hashTag |-> "", dbErr |-> "nil"]
LoadIdle ==
    /\ dbClients = <<>>
    /\ table = <<>>
    /\ loadArg = NoLoad
    /\ loadRet = [model |-> NoModel, err |-> "nil"]
ExpiryIdle ==
    /\ redisValue = [ExpireTs |-> 0]
    /\ now = 0
    /\ called = {}
    /\ isExpiredRet = FALSE
    /\ ttlRet = 0
\* a DBClusterConfig without shards, and the state before NewDBClusterFromConfig
NoConfig == [ShardingCount |-> 0, Shardings |-> <<>>]
NilCluster == [clients |-> <<>>, shardingCount |-> 0]
NotConstructed == [cluster |-> NilCluster, err |-> "none"]
NoResolution == [tableName |-> "", client |-> "nil", err |-> "none"]
NoStored == [data |-> <<>>, written |-> <<>>, accessed |-> <<>>]
NoStorageCall == [op |-> "none"]
NoStorageRet == [err |-> "none", queries |-> 0, models |-> {}]
IndexIdle ==
    /\ ixKey = ""
    /\ ixCount = [high |-> 0, low |-> 0]
    /\ ixClients = <<>>
    /\ ixRets = <<>>
    /\ ixModel = NoResolution
ConfigIdle ==
    /\ shardConfig = NoConfig
    /\ newRet = NotConstructed
StorageIdle ==
    /\ stClients = <<>>
    /\ stored = NoStored
    /\ stCall = NoStorageCall
    /\ stRet = NoStorageRet
    /\ nStCalls = 0
NoEventArgs == [hashTag |-> "", keys |-> <<>>, accessMode |-> "", accessTime |-> 0]
NoEventRet == [event |-> ZeroEvent, err |-> "none"]
NewEventIdle ==
    /\ newEventArgs = NoEventArgs
    /\ newEventRet = NoEventRet
TickIdle ==
    /\ keySets = <<>>
    /\ eventsByRef = EmptyMap
    /\ merged = <<>>
    /\ inWindow = [h \in {} |-> {}]
    /\ collections = <<>>
NoLoadResult == [model |-> NoModel, err |-> "none"]
CancelIdle ==
    /\ cxTable = EmptyMap
    /\ cxHashTag = ""
    /\ cxCtx = "active"
    /\ cxReader = "idle"
    /\ cxResult = NoLoadResult
    /\ cxCaller = "idle"
    /\ cxRet = NoLoadResult
NoKeysRow ==
    [exists |-> FALSE, Keys |-> <<>>, AccessedAt |-> 0, WrittenAt |-> 0, SyncedAt |-> 0,
     CreatedAt |-> 0, UpdatedAt |-> 0, Status |-> "", Version |-> 0]
NoKeysEvent == [HashTag |-> "", Keys |-> {}, AccessTime |-> 0, WriteTime |-> 0]
KeysIdle ==
    /\ hkRow = NoKeysRow
    /\ hkModel = NoKeysRow
    /\ hkEvent = NoKeysEvent
    /\ hkTime = 0
    /\ hkPc = "idle"
    /\ hkRet = "none"
LateIdle == CancelIdle /\ KeysIdle
\* a service configured to report one event per request
OneEventBatches == requestMaxEvent = 1
ShardIdle == IndexIdle /\ ConfigIdle /\ StorageIdle /\ NewEventIdle /\ TickIdle
OthersIdle == ServeIdle /\ LoadIdle /\ ExpiryIdle /\ ShardIdle

(***************************************************************************)
(* Spec: the event pipeline                                                *)
(***************************************************************************)
\* Spec: the service in operation, its clients and the callers of Stop
Init == PipeInit /\ NoHistory /\ LateIdle /\ requestMaxEvent \in 1..RequestMaxEvent /\ AggIdle /\ StoreIdle /\ BulkIdle /\ OthersIdle

Next ==
    \/ \E event \in SendInputs : SendEvent(event)
    \/ AggRecv
    \/ AggStop
    \/ ColTick
    \/ ColPush
    \/ ColStop
    \/ \E r \in Reporters : RepRecv(r)
    \/ \E r \in Reporters : RepTick(r)
    \/ \E r \in Reporters : RepStopSignal(r)
    \/ \E r \in Reporters : RepPost(r)
    \/ \E s \in Stoppers : StopSignal(s)
    \/ \E s \in Stoppers : StopWait(s)
    \/ \E s \in Stoppers : DrainTimeout(s)
    \/ \E s \in Stoppers : DrainCollected(s)
    \/ \E s \in Stoppers : DrainEvent(s)
    \/ \E s \in Stoppers : FlushNext(s)
    \/ \E s \in Stoppers : FlushLast(s)

Spec == Init /\ [][Next]_vars

\* SpecHealthy: Spec with the history of the events SendEvent enqueued
InitHealthy ==
    /\ PipeInit /\ accepted = <<>> /\ LateIdle /\ requestMaxEvent \in 1..RequestMaxEvent
    /\ AggIdle /\ StoreIdle /\ BulkIdle /\ OthersIdle

SpecHealthy == InitHealthy /\ [][Next]_vars

\* SpecStart: the same from the moment NewHashTagEventService returns, the start of
\* the worker goroutines interleaved with everything else; one goroutine calls Stop
\* and the clients send events of one hash tag
StartStoppers == {"s1"}
StartInputs == { e \in SendInputs : e.HashTag # "b" }
InitStart == PipeConstructed /\ NoHistory /\ LateIdle /\ OneEventBatches /\ AggIdle /\ StoreIdle /\ BulkIdle /\ OthersIdle

NextStart ==
    \/ AggStart
    \/ ColStart
    \/ \E r \in Reporters : RepStart(r)
    \/ \E event \in StartInputs : SendEvent(event)
    \/ AggRecv
    \/ AggStop
    \/ ColTick
    \/ ColPush
    \/ ColStop
    \/ \E r \in Reporters : RepRecv(r)
    \/ \E r \in Reporters : RepTick(r)
    \/ \E r \in Reporters : RepStopSignal(r)
    \/ \E r \in Reporters : RepPost(r)
    \/ \E s \in StartStoppers : StopSignal(s)
    \/ \E s \in StartStoppers : StopWait(s)
    \/ \E s \in StartStoppers : DrainTimeout(s)
    \/ \E s \in StartStoppers : DrainCollected(s)
    \/ \E s \in StartStoppers : DrainEvent(s)
    \/ \E s \in StartStoppers : FlushNext(s)
    \/ \E s \in StartStoppers : FlushLast(s)

SpecStart == InitStart /\ [][NextStart]_vars

(***************************************************************************)
(* Properties of the event pipeline (checked under Spec)                   *)
(***************************************************************************)
Full(ch) == Len(ch.buf) = BufferLimit

\* C2 as stated: a SendEvent of a valid event at capacity returns the buffer-full
\* error and leaves eventBuffer, the map and collectedEventBuffer unchanged; with free
\* capacity it appends the event and returns nil.
C2_SendAtCapacityAsStated ==
    [][\A e \in ValidEvents : SendEvent(e) =>
          IF Full(eventBuffer)
          THEN /\ sendRet' = "full"
               /\ UNCHANGED <<eventBuffer, events, collectedEventBuffer>>
          ELSE /\ eventBuffer'.buf = Append(eventBuffer.buf, e)
               /\ sendRet' = "nil"]_vars

\* C2 amended: the two cases hold while eventBuffer is open; once the drain has
\* closed it, SendEvent returns nil, enqueues nothing and increases
\* error.send_event_panic, at capacity or not.
C2_SendAtCapacity ==
    [][\A e \in ValidEvents : SendEvent(e) =>
          /\ UNCHANGED <<events, collectedEventBuffer>>
          /\ IF eventBuffer.closed
             THEN /\ sendRet' = "nil"
                  /\ UNCHANGED eventBuffer
                  /\ metricSendEventPanic \in metric'
             ELSE IF Full(eventBuffer)
             THEN /\ sendRet' = "full"
                  /\ UNCHANGED eventBuffer
             ELSE /\ eventBuffer'.buf = Append(eventBuffer.buf, e)
                  /\ sendRet' = "nil"]_vars

\* C2 witness: a SendEvent met the full, open buffer and returned the error
C2_Witness == sendRet = "full" /\ Full(eventBuffer) /\ ~eventBuffer.closed

\* C7 as stated: a second Stop, after or during the first, completes normally: no
\* Stop closes a channel that is already closed, none panics.
C7_StopIdempotent == panicked # "close of closed channel"

FlushedEvents(s) == UNION { SeqToSet(flushed[s][i]) : i \in 1..Len(flushed[s]) }

\* C8 as stated: a drain that ends with the drain-timeout error has nevertheless sent
\* the residual events of the aggregation map before Stop returns.
C8_TimeoutStillFlushes ==
    \A s \in Stoppers :
        (stopPc[s] = "done" /\ drainErr[s] = errDrainEventTimeout)
            => \A h \in DOMAIN events : events[h] \in FlushedEvents(s)

\* C8 amended: a drain whose timer fires returns the drain-timeout error at once: the
\* error is recorded, Stop returns, and that drain never reaches the flush, so the
\* residual events of the map are not sent.
C8_TimeoutSkipsFlush ==
    \A s \in Stoppers :
        drainErr[s] = errDrainEventTimeout
            => /\ stopPc[s] = "done"
               /\ metricDrainEventError \in metric
               /\ flushed[s] = <<>>
               /\ flushBatch[s] = <<>>
               /\ flushLeft[s] = {}

\* C8 witness: a Stop returned after a drain timeout with events left in the map
C8_Witness ==
    \E s \in Stoppers :
        /\ stopPc[s] = "done"
        /\ drainErr[s] = errDrainEventTimeout
        /\ DOMAIN events # {}

\* the steps of the workers and of the Stop calls (everything but the clients)
StopProgress ==
    \/ AggRecv
    \/ AggStop
    \/ ColTick
    \/ ColPush
    \/ ColStop
    \/ \E r \in Reporters : RepRecv(r) \/ RepTick(r) \/ RepStopSignal(r) \/ RepPost(r)
    \/ \E s \in Stoppers : StopWait(s) \/ DrainTimeout(s) \/ DrainCollected(s)
    \/ \E s \in Stoppers : DrainEvent(s) \/ FlushNext(s) \/ FlushLast(s)

\* C9 as stated: Stop always terminates. In the form a finite run refutes: while a
\* Stop has begun and not returned (and the process is alive), that Stop or a worker
\* it waits for can take a step.
C9_StopTerminates ==
    (Running /\ \E s \in Stoppers : stopPc[s] \notin {"idle", "done"}) => ENABLED StopProgress

\* what the merge rule makes of the events of hash tag h among src
MergedOf(src, h) ==
    LET es == { e \in src : e.HashTag = h }
    IN  HashTagEvent(h,
                     UNION { e.Keys : e \in es },
                     IF \E e \in es : e.AccessMode = HashTagAccessModeWrite
                     THEN HashTagAccessModeWrite ELSE HashTagAccessModeRead,
                     Max({ e.AccessTime : e \in es }))

MapEvents(evs) == { evs[h] : h \in DOMAIN evs }

\* the flush of Stop s is the events of src merged per hash tag, each once, in
\* batches of at most RequestMaxEvent
FlushIsMergeOf(s, src) ==
    LET tags == { e.HashTag : e \in src }
        sizes == [i \in 1..Len(flushed[s]) |-> Len(flushed[s][i])]
        total == IF Len(flushed[s]) = 0 THEN 0
                 ELSE Cardinality({ <<i, j>> \in (1..Len(flushed[s])) \X (1..requestMaxEvent) :
                                       j <= sizes[i] })
    IN  /\ \A i \in 1..Len(flushed[s]) : sizes[i] >= 1 /\ sizes[i] <= requestMaxEvent
        /\ total = Cardinality(tags)
        /\ FlushedEvents(s) = { MergedOf(src, h) : h \in tags }

\* the flush of Stop s holds, for every hash tag of src, exactly one event, which
\* carries (at least) the keys, the latest access time and the write mode of the
\* events of src for that tag
FlushCovers(s, src) ==
    \A h \in { e.HashTag : e \in src } :
        /\ Cardinality({ <<i, k>> \in (1..Len(flushed[s])) \X (1..requestMaxEvent) :
                            k <= Len(flushed[s][i]) /\ flushed[s][i][k].HashTag = h }) = 1
        /\ \E f \in FlushedEvents(s) :
              /\ f.HashTag = h
              /\ MergedOf(src, h).Keys \subseteq f.Keys
              /\ MergedOf(src, h).AccessTime <= f.AccessTime
              /\ MergedOf(src, h).AccessMode = HashTagAccessModeWrite
                    => f.AccessMode = HashTagAccessModeWrite

\* C10 as stated: when the drain timer does not fire, the flush holds exactly one
\* merged event per hash tag present in either buffer or the map when the workers had
\* exited, in batches of at most requestMaxEvent.
C10_DrainDedupAsStated ==
    \A s \in Stoppers :
        (stopPc[s] = "done" /\ drainErr[s] # errDrainEventTimeout /\ exitedAtWait)
            => /\ FlushCovers(s, chanAtWait \cup MapEvents(mapAtWait))
               /\ \A i \in 1..Len(flushed[s]) : Len(flushed[s][i]) <= requestMaxEvent

\* the flush of Stop s stopped part-way: what it sent are merged events of src, no hash
\* tag twice, in batches of at most RequestMaxEvent
FlushIsPartOfMergeOf(s, src) ==
    /\ \A i \in 1..Len(flushed[s]) : Len(flushed[s][i]) \in 1..requestMaxEvent
    /\ FlushedEvents(s) \subseteq { MergedOf(src, e.HashTag) : e \in src }
    /\ \A i, j \in 1..Len(flushed[s]) : \A k \in 1..Len(flushed[s][i]) :
          \A l \in 1..Len(flushed[s][j]) :
             flushed[s][i][k].HashTag = flushed[s][j][l].HashTag => (i = j /\ k = l)

\* C10 amended: once the workers have exited, a drain whose timer does not fire merges
\* every event it receives from collectedBuffer and then eventBuffer (those sent
\* before eventBuffer was closed included) into the map as wg.Wait left it; if every
\* POST of the flush is answered 200 the flush holds exactly one merged event per hash
\* tag of these, in batches of at most requestMaxEvent; a POST answered otherwise
\* ends the flush at that batch, the later events unsent.
C10_DrainDedup ==
    \A s \in Stoppers :
        (stopPc[s] = "done" /\ exitedAtWait) =>
            /\ drainErr[s] = "nil" => FlushIsMergeOf(s, drainIn \cup MapEvents(mapAtWait))
            /\ drainErr[s] = "response error" =>
                  /\ FlushIsPartOfMergeOf(s, drainIn \cup MapEvents(mapAtWait))
                  /\ flushed[s] # <<>>

\* C10 witness: a completed flush in which some hash tag had several events to merge
C10_Witness ==
    \E s \in Stoppers :
        /\ stopPc[s] = "done"
        /\ drainErr[s] = "nil"
        /\ exitedAtWait
        /\ \E h \in HashTags :
              Cardinality({ e \in drainIn \cup MapEvents(mapAtWait) : e.HashTag = h }) >= 2

(***************************************************************************)
(* SpecAgg: the aggregation map over one window after another              *)
(***************************************************************************)
\* the events a client can have put into eventBuffer: those that pass Check
AggEvents ==
    { e \in { HashTagEvent(h, ks, m, t) : h \in HashTags, ks \in SUBSET KeyNames,
                                          m \in AccessModes, t \in 0..MaxAggTime } :
        Check(e) = "nil" }

\* the fields of the service other than the map
pRest == <<eventBuffer, collectedEventBuffer, stop, stopCh, wg, aggPc, colPc,
           colPending, repPc, repBatch, repStop, stopPc, drainErr, flushLeft, flushBatch,
           flushed, posted, panicked, metric, sendRet, nSend, mapAtWait, chanAtWait,
           drainIn, exitedAtWait>>

\* aggregateEvents: case event := <-service.eventBuffer, service.aggregateEvent(event)
AggMerge(event) ==
    /\ Cardinality(window) < MaxAggEvents
    /\ events' = aggregateEvent(events, event)
    /\ window' = window \cup {event}
    /\ UNCHANGED <<pRest, svars, bvars, ovars>>

\* collectAggregatedEvents: a tick, _collect empties the map and a new window begins
AggCollect ==
    /\ window # {}
    /\ events' = EmptyMap
    /\ window' = {}
    /\ UNCHANGED <<pRest, svars, bvars, ovars>>

InitAgg == PipeInit /\ NoHistory /\ LateIdle /\ OneEventBatches /\ AggIdle /\ StoreIdle /\ BulkIdle /\ OthersIdle

NextAgg ==
    \/ \E event \in AggEvents : AggMerge(event)
    \/ AggCollect

SpecAgg == InitAgg /\ [][NextAgg]_vars

\* C1: whatever events were merged into the map within one window, in whatever order,
\* the map has an entry exactly for the hash tags of these events, and the entry of a
\* hash tag has the union of its events' keys, the maximum of their access times, and
\* mode write if and only if one of them was a write.
C1_MergeLaw ==
    \A h \in HashTags :
        LET es == { e \in window : e.HashTag = h }
        IN  /\ h \in DOMAIN events <=> es # {}
            /\ es # {} =>
                  /\ events[h].HashTag = h
                  /\ events[h].Keys = UNION { e.Keys : e \in es }
                  /\ events[h].AccessTime = Max({ e.AccessTime : e \in es })
                  /\ events[h].AccessMode = HashTagAccessModeWrite
                        <=> \E e \in es : e.AccessMode = HashTagAccessModeWrite

\* C1 witness: (read, k1, 1), (write, k2, 3) and (read, k1, 2) on one hash tag were
\* merged, and the entry is (k1 and k2, write, 3)
C1_Witness ==
    /\ window = { HashTagEvent("a", {"k1"}, HashTagAccessModeRead, 1),
                  HashTagEvent("a", {"k2"}, HashTagAccessModeWrite, 3),
                  HashTagEvent("a", {"k1"}, HashTagAccessModeRead, 2) }
    /\ events["a"] = HashTagEvent("a", {"k1", "k2"}, HashTagAccessModeWrite, 3)

(***************************************************************************)
(* SpecStore: concurrent writers of one hash tag's room_data_v2 row        *)
(***************************************************************************)
TryTimes == 3
MaxInitVersion == 1

\* RedisValue; the value a writer writes carries the writer's name as its payload
RedisValue(type, value) == [Type |-> type, Value |-> value]
ZeroValue == RedisValue("", "")
\* RedisValue.IsZero
IsZero(v) == v.Type = ""

\* the arguments of the calls a writer can make
StoreOps(w) ==
    { [kind |-> "upsert", key |-> k, value |-> v, tryTimes |-> n] :
          k \in KeyNames, v \in {RedisValue("string", w), ZeroValue}, n \in {0, 1, TryTimes} }
    \cup { [kind |-> "upsertValue", value |-> ("k2" :> RedisValue("string", w)), tryTimes |-> n] :
              n \in {0, 1, TryTimes} }
    \cup { [kind |-> "delete", key |-> k] : k \in KeyNames }

\* the rows the table can hold for the hash tag before the calls
InitialDocs ==
    {NoDoc} \cup { [exists |-> TRUE, value |-> ("k1" :> RedisValue("string", "old")), version |-> n] :
                      n \in 0..MaxInitVersion }

errNoRowsUpdated == "no rows is updated"
errIntegrityViolation == "integrity violation"

\* a plausible slip: a CAS miss is not taken for a retry error
isRetryErrorNoCasMiss(err) == err \in {errIntegrityViolation, "tx done"}

\* isRetryErrorForUpdateInTx
isRetryErrorForUpdateInTx(err) == err \in {errNoRowsUpdated, errIntegrityViolation, "tx done"}

\* value - key
WithoutKey(m, k) == [x \in DOMAIN m \ {k} |-> m[x]]
\* jsonb_set(value, {key}, v)
WithKey(m, k, v) == (k :> v) @@ m

\* the Value of the row an upsert inserts when it found none
InsertedValue(op) == IF op.kind = "upsert" THEN (op.key :> op.value) ELSE op.value
\* the value the Update of an upsert sets
UpdatedValue(op, m) == IF op.kind = "upsert" THEN WithKey(m, op.key, op.value) ELSE op.value

\* a plausible slip: the UPDATE removes the key and leaves the version as it is
StoreDeleteKeepVersion(w) ==
    /\ wPc[w] = "idle"
    /\ \E op \in StoreOps(w) :
          /\ op.kind = "delete"
          /\ wOp' = [wOp EXCEPT ![w] = op]
          /\ doc' = IF doc.exists
                    THEN [doc EXCEPT !.value = WithoutKey(@, op.key)]
                    ELSE doc
    /\ wPc' = [wPc EXCEPT ![w] = "done"]
    /\ wRet' = [wRet EXCEPT ![w] = "nil"]
    /\ UNCHANGED <<wTry, wVer, doc0, pvars, avars, bvars, ovars>>

\* deleteRoomData: one UPDATE ... SET value = value - key, version = version + 1
StoreDelete(w) ==
    /\ wPc[w] = "idle"
    /\ \E op \in StoreOps(w) :
          /\ op.kind = "delete"
          /\ wOp' = [wOp EXCEPT ![w] = op]
          /\ doc' = IF doc.exists
                    THEN [doc EXCEPT !.value = WithoutKey(@, op.key), !.version = @ + 1]
                    ELSE doc
    /\ wPc' = [wPc EXCEPT ![w] = "done"]
    /\ wRet' = [wRet EXCEPT ![w] = "nil"]
    /\ UNCHANGED <<wTry, wVer, doc0, pvars, avars, bvars, ovars>>

\* upsertRoomData / upsertRoomDataValue are called: var err error, i := 0
StoreCall(w) ==
    /\ wPc[w] = "idle"
    /\ \E op \in StoreOps(w) :
          /\ op.kind # "delete"
          /\ wOp' = [wOp EXCEPT ![w] = op]
    /\ wPc' = [wPc EXCEPT ![w] = "loop"]
    /\ wRet' = [wRet EXCEPT ![w] = "nil"]
    /\ wTry' = [wTry EXCEPT ![w] = 0]
    /\ UNCHANGED <<doc, wVer, doc0, pvars, avars, bvars, ovars>>

\* the loop test i < tryTimes and, inside _upsertRoomData / _upsertRoomDataValue, the
\* IsZero test and the Select; wVer -1 stands for pg.ErrNoRows
StoreSelect(w) ==
    /\ wPc[w] = "loop"
    /\ IF wTry[w] >= wOp[w].tryTimes
       THEN /\ wPc' = [wPc EXCEPT ![w] = "done"]
            /\ UNCHANGED <<wVer, wRet>>
       ELSE IF wOp[w].kind = "upsert" /\ IsZero(wOp[w].value)
       THEN /\ wPc' = [wPc EXCEPT ![w] = "done"]
            /\ wRet' = [wRet EXCEPT ![w] = "nil"]
            /\ UNCHANGED wVer
       ELSE /\ wVer' = [wVer EXCEPT ![w] = IF doc.exists THEN doc.version ELSE -1]
            /\ wPc' = [wPc EXCEPT ![w] = "write"]
            /\ UNCHANGED wRet
    /\ UNCHANGED <<doc, wOp, wTry, doc0, pvars, avars, bvars, ovars>>

\* a plausible slip: the Insert replaces a row that is already there
InsertOverwrite(d, op) ==
    [doc |-> [exists |-> TRUE, value |-> InsertedValue(op), version |-> 0], err |-> "nil"]

\* query.Insert() of a row with Version 0: the primary key rejects a second row
Insert(d, op) ==
    IF d.exists
    THEN [doc |-> d, err |-> errIntegrityViolation]
    ELSE [doc |-> [exists |-> TRUE, value |-> InsertedValue(op), version |-> 0], err |-> "nil"]

\* a plausible slip: the Update forgets Set("version=?", model.Version+1)
UpdateKeepVersion(d, op, ver) ==
    IF d.exists /\ d.version = ver
    THEN [doc |-> [d EXCEPT !.value = UpdatedValue(op, @)], err |-> "nil"]
    ELSE [doc |-> d, err |-> errNoRowsUpdated]

\* query.Set(value).Set(version = ver + 1).WherePK().Where("version=?", ver).Update(),
\* and errNoRowsUpdated when RowsAffected() is 0
Update(d, op, ver) ==
    IF d.exists /\ d.version = ver
    THEN [doc |-> [d EXCEPT !.value = UpdatedValue(op, @), !.version = ver + 1], err |-> "nil"]
    ELSE [doc |-> d, err |-> errNoRowsUpdated]

\* _upsertRoomData / _upsertRoomDataValue after the Select: the Insert or the Update,
\* and what the loop of upsertRoomData / upsertRoomDataValue does with the error
StoreWrite(w) ==
    /\ wPc[w] = "write"
    /\ LET res == IF wVer[w] = -1 THEN Insert(doc, wOp[w]) ELSE Update(doc, wOp[w], wVer[w])
       IN  /\ doc' = res.doc
           /\ wRet' = [wRet EXCEPT ![w] = res.err]
           /\ IF res.err = "nil"
              THEN /\ wPc' = [wPc EXCEPT ![w] = "done"]
                   /\ UNCHANGED wTry
              ELSE IF isRetryErrorForUpdateInTx(res.err)
              THEN /\ wPc' = [wPc EXCEPT ![w] = "loop"]
                   /\ wTry' = [wTry EXCEPT ![w] = @ + 1]
              ELSE /\ wPc' = [wPc EXCEPT ![w] = "done"]
                   /\ UNCHANGED wTry
    /\ UNCHANGED <<wOp, wVer, doc0, pvars, avars, bvars, ovars>>

InitStore ==
    /\ PipeInit /\ NoHistory /\ LateIdle /\ OneEventBatches /\ AggIdle /\ BulkIdle /\ OthersIdle
    /\ doc \in InitialDocs
    /\ doc0 = doc
    /\ wPc = [w \in Writers |-> "idle"]
    /\ wOp = [w \in Writers |-> NoOp]
    /\ wTry = [w \in Writers |-> 0]
    /\ wVer = [w \in Writers |-> 0]
    /\ wRet = [w \in Writers |-> "none"]

NextStore ==
    \/ \E w \in Writers : StoreDelete(w)
    \/ \E w \in Writers : StoreCall(w)
    \/ \E w \in Writers : StoreSelect(w)
    \/ \E w \in Writers : StoreWrite(w)

SpecStore == InitStore /\ [][NextStore]_vars

(***************************************************************************)
(* Properties of the storage writes (checked under SpecStore)              *)
(***************************************************************************)
\* w1 and w2 each made one upsertRoomData call with tryTimes = TryTimes, on distinct
\* keys, both calls have returned, and nobody else wrote
TwoUpsertsDone ==
    /\ wPc["w1"] = "done" /\ wPc["w2"] = "done" /\ wPc["w3"] = "idle"
    /\ wOp["w1"].kind = "upsert" /\ wOp["w2"].kind = "upsert"
    /\ wOp["w1"].tryTimes = TryTimes /\ wOp["w2"].tryTimes = TryTimes
    /\ wOp["w1"].key # wOp["w2"].key

\* C3 as stated: after two concurrent upsertRoomData calls on distinct keys, each with
\* tryTimes = 3, both have returned nil, the document holds both keys with the written
\* values, and its version is exactly 2 higher than before the calls.
C3_CasRetryAsStated ==
    (TwoUpsertsDone /\ ~IsZero(wOp["w1"].value) /\ ~IsZero(wOp["w2"].value)) =>
        /\ wRet["w1"] = "nil" /\ wRet["w2"] = "nil"
        /\ doc.exists
        /\ \A w \in {"w1", "w2"} :
              wOp[w].key \in DOMAIN doc.value /\ doc.value[wOp[w].key] = wOp[w].value
        /\ doc.version = doc0.version + 2

\* C3 amended: both calls return nil in every interleaving; every key written with a
\* value of non-empty kind is in the document with that value; the version is higher
\* than before by the number of such calls when the document existed, and one less
\* than that number when the calls created it (the insert gives version 0); a call
\* whose value has the empty kind returns nil and writes nothing.
C3_CasRetry ==
    TwoUpsertsDone =>
        LET written == { w \in {"w1", "w2"} : ~IsZero(wOp[w].value) }
            n == Cardinality(written)
        IN  /\ wRet["w1"] = "nil" /\ wRet["w2"] = "nil"
            /\ n = 0 => doc = doc0
            /\ n > 0 =>
                  /\ doc.exists
                  /\ \A w \in written :
                        wOp[w].key \in DOMAIN doc.value /\ doc.value[wOp[w].key] = wOp[w].value
                  /\ \A k \in DOMAIN doc.value \ { wOp[w].key : w \in written } :
                        k \in DOMAIN doc0.value /\ doc.value[k] = doc0.value[k]
                  /\ doc.version = IF doc0.exists THEN doc0.version + n ELSE n - 1

\* C3 witness: the two calls raced on an existing document, one missed its CAS and
\* retried, and both keys are there
C3_Witness ==
    /\ TwoUpsertsDone
    /\ ~IsZero(wOp["w1"].value) /\ ~IsZero(wOp["w2"].value)
    /\ doc0.exists
    /\ wTry["w1"] = 1
    /\ doc.version = doc0.version + 2

\* what a call does to the row when it runs alone
SeqApply(d, op) ==
    IF op.kind = "delete"
    THEN IF d.exists THEN [d EXCEPT !.value = WithoutKey(@, op.key)] ELSE d
    ELSE IF op.tryTimes <= 0 THEN d
    ELSE IF op.kind = "upsert"
    THEN IF IsZero(op.value) THEN d
         ELSE [exists |-> TRUE,
               value |-> IF d.exists THEN WithKey(d.value, op.key, op.value)
                         ELSE (op.key :> op.value),
               version |-> 0]
    ELSE [exists |-> TRUE, value |-> op.value, version |-> 0]

RECURSIVE SeqApplyAll(_, _)
SeqApplyAll(d, ops) ==
    IF ops = <<>> THEN d ELSE SeqApplyAll(SeqApply(d, Head(ops)), Tail(ops))

\* the calls that have returned success
Succeeded == { w \in Writers : wPc[w] = "done" /\ wRet[w] = "nil" }

\* C4: when no call is in progress, the value map of the document is what the calls
\* that returned success give when applied one after another in some order, starting
\* from the document before the calls.
C4_Linearized ==
    (\A w \in Writers : wPc[w] \in {"idle", "done"}) =>
        \E order \in Perms(Succeeded) :
            LET d == SeqApplyAll(doc0, [i \in 1..Len(order) |-> wOp[order[i]]])
            IN  d.exists = doc.exists /\ d.value = doc.value

\* C4 witness: a single-key upsert, a full-map upsert and a delete ran concurrently on
\* the same document, one of them had to retry, and all returned success
C4_Witness ==
    /\ \A w \in Writers : wPc[w] = "done" /\ wRet[w] = "nil"
    /\ { wOp[w].kind : w \in Writers } = {"upsert", "upsertValue", "delete"}
    /\ \E w \in Writers : wTry[w] > 0

\* a step in which a statement of writer w changed rows and the call returned success
WroteOk(w) ==
    /\ wPc[w] \in {"idle", "write"}
    /\ wPc'[w] = "done"
    /\ wRet'[w] = "nil"

\* C5: the version of a document never decreases; every successful write to an
\* existing document (single-key upsert, full-map upsert, key delete) raises it by
\* exactly 1, and nothing else changes the row; an upsert that creates the document
\* gives it version 0.
C5_VersionMonotone ==
    [][/\ doc.exists => (doc'.exists /\ doc'.version >= doc.version)
       /\ (doc.exists /\ doc' # doc) => doc'.version = doc.version + 1
       /\ (~doc.exists /\ doc' # doc) => (doc'.exists /\ doc'.version = 0)
       /\ \A w \in Writers : (WroteOk(w) /\ doc.exists) => doc'.version = doc.version + 1
       /\ \A w \in Writers : (WroteOk(w) /\ ~doc.exists /\ wOp'[w].kind # "delete")
                                => (doc'.exists /\ doc'.version = 0)]_vars

\* C5 witness: an upsert created the document and the three kinds of write have since
\* been applied to it
C5_Witness ==
    /\ ~doc0.exists
    /\ doc.exists
    /\ doc.version = 2
    /\ { wOp[w].kind : w \in Writers } = {"upsert", "upsertValue", "delete"}
    /\ \A w \in Writers : wPc[w] = "done" /\ wRet[w] = "nil"

\* C19: deleteRoomData on an existing row removes the key from the value map, leaves
\* every other key with its record, adds 1 to the version whatever the other writers
\* are doing, and returns nil; on a hash tag without row it creates none and returns
\* nil.
C19_DeleteFrame ==
    [][\A w \in Writers : StoreDelete(w) =>
          LET key == wOp'[w].key
          IN  /\ wRet'[w] = "nil"
              /\ wPc'[w] = "done"
              /\ doc.exists =>
                    /\ doc'.exists
                    /\ doc'.version = doc.version + 1
                    /\ DOMAIN doc'.value = DOMAIN doc.value \ {key}
                    /\ \A k \in DOMAIN doc'.value : doc'.value[k] = doc.value[k]
              /\ ~doc.exists => doc' = doc]_vars

\* a delete of k1 went through, k2 is still there, while another writer is between
\* its Select and its write
C19_Witness ==
    \E w \in Writers :
        /\ wOp[w] = [kind |-> "delete", key |-> "k1"]
        /\ wPc[w] = "done"
        /\ doc.exists /\ DOMAIN doc.value = {"k2"}
        /\ "k1" \in DOMAIN doc0.value
        /\ \E u \in Writers \ {w} : wPc[u] \notin {"idle", "done"} /\ wVer[u] >= 0

(***************************************************************************)
(* SpecBulk: bulk upserts of written and accessed records over the shards  *)
(***************************************************************************)
ShardingCount == 3
MaxTs == 2
MaxBulk == 2

WrittenKeys == KeyNames
AccessedHashTags == {"a", "c"}

\* crc32.ChecksumIEEE of the sharding keys of the model, as two 16-bit halves
ChecksumIEEE(key) ==
    ("a" :> [hi |-> 59575, lo |-> 48707] @@ "b" :> [hi |-> 29118, lo |-> 61433] @@ "c" :> [hi |-> 1721, lo |-> 57199] @@ "k1" :> [hi |-> 38414, lo |-> 41129] @@ "k2" :> [hi |-> 3847, lo |-> 61715])[key]

\* getTableIndex: int(crc32.ChecksumIEEE(key) % uint32(shardingCount))
getTableIndex(shardingKey, shardingCount) ==
    LET c == ChecksumIEEE(shardingKey)
    IN  (((c.hi % shardingCount) * (65536 % shardingCount)) + (c.lo % shardingCount))
            % shardingCount

\* DBCluster.clients of a configuration whose shards cover every index
clients ==
    << [startIndex |-> 0, endIndex |-> 0, client |-> "db0"],
       [startIndex |-> 1, endIndex |-> ShardingCount - 1, client |-> "db1"] >>

\* DBCluster.getClientByIndex: the first client whose range holds index, or nil
getClientByIndex(index) ==
    LET hits == { i \in 1..Len(clients) :
                     clients[i].startIndex <= index /\ index <= clients[i].endIndex }
    IN  IF hits = {} THEN "nil"
        ELSE clients[CHOOSE i \in hits : \A j \in hits : i <= j].client

\* DBCluster.GetTableNameAndDBClientByModel
GetTableNameAndDBClientByModel(prefix, shardingKey) ==
    LET tableIndex == getTableIndex(shardingKey, ShardingCount)
        client == getClientByIndex(tableIndex)
    IN  IF client = "nil"
        THEN [tableName |-> "", client |-> "nil", err |-> "no db client found"]
        ELSE [tableName |-> <<prefix, tableIndex>>, client |-> client, err |-> "nil"]

\* a record model: its primary key and its timestamp (written_at / accessed_at)
RecordModel(pk, ts) == [pk |-> pk, ts |-> ts]

\* the subsequence of q of the elements that are in S
RECURSIVE SelectIn(_, _)
SelectIn(q, S) ==
    IF q = <<>> THEN <<>>
    ELSE IF Head(q) \in S THEN <<Head(q)>> \o SelectIn(Tail(q), S)
    ELSE SelectIn(Tail(q), S)

\* the grouping both getClusterModels functions make: table name -> the models of
\* that table in argument order, or the error of the first model without a client
clusterModelsOf(prefix, models) ==
    LET where == [i \in 1..Len(models) |-> GetTableNameAndDBClientByModel(prefix, models[i].pk)]
        names == { where[i].tableName : i \in 1..Len(models) }
    IN  IF \E i \in 1..Len(models) : where[i].err # "nil"
        THEN [err |-> "no db client found", groups |-> [t \in {} |-> <<>>]]
        ELSE [err |-> "nil",
              groups |-> [t \in names |->
                            SelectIn(models, { m \in SeqToSet(models) :
                                GetTableNameAndDBClientByModel(prefix, m.pk).tableName = t })]]

\* getClusterModelsFromWrittenRecordModels
getClusterModelsFromWrittenRecordModels(models) == clusterModelsOf("room_written_record", models)

\* getClusterModelsFromAccessedRecordModelsV2
getClusterModelsFromAccessedRecordModelsV2(models) ==
    clusterModelsOf("room_accessed_record_v2", models)

\* one proposed row of the statement: rows is the table, touched the keys this
\* statement has already inserted or updated
ProposeRow(st, m, overwrite) ==
    IF st.err # "nil" THEN st
    ELSE IF m.pk \notin DOMAIN st.rows
    THEN [st EXCEPT !.rows = (m.pk :> m.ts) @@ @, !.touched = @ \cup {m.pk}]
    ELSE IF m.pk \in st.touched
    THEN [st EXCEPT !.err = "ON CONFLICT DO UPDATE command cannot affect row a second time"]
    ELSE IF overwrite \/ st.rows[m.pk] < m.ts
    THEN [st EXCEPT !.rows = [@ EXCEPT ![m.pk] = m.ts], !.touched = @ \cup {m.pk}]
    ELSE st

RECURSIVE ProposeRows(_, _, _)
ProposeRows(st, ms, overwrite) ==
    IF ms = <<>> THEN st ELSE ProposeRows(ProposeRow(st, Head(ms), overwrite), Tail(ms), overwrite)

\* a plausible slip: the conflict clause without its Where, the incoming timestamp
\* always stored
OnConflictOverwrite(rows, ms) ==
    LET st == ProposeRows([rows |-> rows, touched |-> {}, err |-> "nil"], ms, TRUE)
    IN  IF st.err = "nil" THEN [rows |-> st.rows, err |-> "nil"] ELSE [rows |-> rows, err |-> st.err]

\* Model(&models).Table(t).OnConflict("(pk) DO UPDATE").Set("ts=EXCLUDED.ts")
\* .Where("existing.ts<EXCLUDED.ts").Insert(): one statement, all of it or nothing
OnConflictDoUpdate(rows, ms) ==
    LET st == ProposeRows([rows |-> rows, touched |-> {}, err |-> "nil"], ms, FALSE)
    IN  IF st.err = "nil" THEN [rows |-> st.rows, err |-> "nil"] ELSE [rows |-> rows, err |-> st.err]

\* for _, clusterModel := range clusterModels: the statements in the order the range
\* delivers the groups, up to the first error; done is the groups whose statement ran
RECURSIVE RunStatements(_, _, _, _)
RunStatements(rows, groups, order, done) ==
    IF order = <<>> THEN [rows |-> rows, err |-> "nil", done |-> done]
    ELSE LET res == OnConflictDoUpdate(rows, groups[Head(order)])
         IN  IF res.err # "nil" THEN [rows |-> rows, err |-> res.err, done |-> done]
             ELSE RunStatements(res.rows, groups, Tail(order), done \cup {Head(order)})

\* the history after the statements of the groups done have run
SeenAfter(seen, groups, done) ==
    LET ms == UNION { SeqToSet(groups[t]) : t \in done }
    IN  [pk \in DOMAIN seen \cup { m.pk : m \in ms } |->
            (IF pk \in DOMAIN seen THEN seen[pk] ELSE {}) \cup { m.ts : m \in { x \in ms : x.pk = pk } }]

\* the calls' arguments: up to MaxBulk models
BulkInputs(pks) ==
    UNION { [1..n -> { RecordModel(pk, ts) : pk \in pks, ts \in 1..MaxTs }] : n \in 0..MaxBulk }

\* what a bulk upsert of kind does with the grouping cm
BulkRun(kind, cm) ==
    IF cm.err # "nil"
    THEN /\ bulkRet' = cm.err
         /\ UNCHANGED <<records, bulkSeen>>
    ELSE \E order \in Perms(DOMAIN cm.groups) :
            LET res == RunStatements(records[kind], cm.groups, order, {})
            IN  /\ records' = [records EXCEPT ![kind] = res.rows]
                /\ bulkRet' = res.err
                /\ bulkSeen' = [bulkSeen EXCEPT ![kind] = SeenAfter(@, cm.groups, res.done)]

\* bulkUpsertWrittenRecordModels
bulkUpsertWrittenRecordModels(models) ==
    /\ BulkRun("written", getClusterModelsFromWrittenRecordModels(models))
    /\ bulkArg' = [kind |-> "written", models |-> models]
    /\ UNCHANGED <<pvars, avars, svars, ovars>>

\* bulkUpsertAccessedRecordModelsV2
bulkUpsertAccessedRecordModelsV2(models) ==
    /\ BulkRun("accessed", getClusterModelsFromAccessedRecordModelsV2(models))
    /\ bulkArg' = [kind |-> "accessed", models |-> models]
    /\ UNCHANGED <<pvars, avars, svars, ovars>>

InitBulk == PipeInit /\ NoHistory /\ LateIdle /\ OneEventBatches /\ AggIdle /\ StoreIdle /\ BulkIdle /\ OthersIdle

NextBulk ==
    \/ \E models \in BulkInputs(WrittenKeys) : bulkUpsertWrittenRecordModels(models)
    \/ \E models \in BulkInputs(AccessedHashTags) : bulkUpsertAccessedRecordModelsV2(models)

SpecBulk == InitBulk /\ [][NextBulk]_vars

\* what C6 says of one call of kind with the grouping cm
BulkLaw(kind, models, cm) ==
    LET old == records[kind]
        new == records'[kind]
        pks == { m.pk : m \in SeqToSet(models) }
        incoming(pk) == { m.ts : m \in { x \in SeqToSet(models) : x.pk = pk } }
    IN  /\ \A pk \in DOMAIN old : pk \in DOMAIN new /\ new[pk] >= old[pk]
        /\ \A pk \in DOMAIN new \ pks : pk \in DOMAIN old /\ new[pk] = old[pk]
        /\ \A pk \in DOMAIN new \ DOMAIN old : new[pk] \in incoming(pk)
        /\ bulkRet' = "nil" =>
              /\ \A pk \in pks :
                    /\ pk \in DOMAIN new
                    /\ new[pk] = Max(incoming(pk) \cup (IF pk \in DOMAIN old THEN {old[pk]} ELSE {}))
              /\ \A order \in Perms(DOMAIN cm.groups) :
                    LET again == RunStatements(new, cm.groups, order, {})
                    IN  again.err = "nil" /\ again.rows = new
        /\ \A k \in {"written", "accessed"} :
              /\ DOMAIN records'[k] = { pk \in DOMAIN bulkSeen'[k] : bulkSeen'[k][pk] # {} }
              /\ \A pk \in DOMAIN records'[k] : records'[k][pk] = Max(bulkSeen'[k][pk])

\* C6: a bulk upsert that succeeds leaves, for every primary key it names, the maximum
\* of the existing and the incoming timestamps (the incoming one if there was no
\* row); the same call made again changes nothing; whatever the order of the calls,
\* a row holds the maximum of the timestamps upserted for its key, and a stored
\* timestamp never moves backwards.
C6_BulkMaxWins ==
    [][/\ bulkArg'.kind = "written"
             => BulkLaw("written", bulkArg'.models,
                        getClusterModelsFromWrittenRecordModels(bulkArg'.models))
       /\ bulkArg'.kind = "accessed"
             => BulkLaw("accessed", bulkArg'.models,
                        getClusterModelsFromAccessedRecordModelsV2(bulkArg'.models))]_vars

\* C6 witness: both timestamps were upserted for a written key and for an accessed
\* hash tag, the last call succeeded, and the rows hold the newer one
C6_Witness ==
    /\ bulkRet = "nil"
    /\ "k1" \in DOMAIN records.written /\ bulkSeen.written["k1"] = 1..MaxTs
    /\ records.written["k1"] = MaxTs
    /\ "a" \in DOMAIN records.accessed /\ bulkSeen.accessed["a"] = 1..MaxTs
    /\ records.accessed["a"] = MaxTs

(***************************************************************************)
(* Properties of the reporter workers (checked under Spec)                 *)
(***************************************************************************)
\* C11: whatever the POST of a reporter's batch ends with, the worker does not crash:
\* it drops the batch and goes on to the next one (or returns when stopped); a POST
\* that did not end with 200 is counted in error.report_events.
C11_ReportFailureHandled ==
    [][\A r \in Reporters : RepPost(r) =>
          /\ panicked' = "none"
          /\ repBatch'[r] = <<>>
          /\ repPc'[r] \in {"batch", "done"}
          /\ (repBatch[r] # <<>> /\ SeqToSet(repBatch[r]) \cap posted' = {})
                => metricReportEventsError \in metric']_vars

(***************************************************************************)
(* The command dispatcher: RoomService (service/service_server.go)         *)
(***************************************************************************)
MaxBatch == 2
MaxCommands == 3
MaxClock == 2

\* a nil error; an error is the sequence of the parts of its message
NoError == <<>>

\* the hash tag of a key: the substring between the first { and the next }
hashTagOf(key) == IF key = "{b}k1" THEN "b" ELSE "a"

\* what a connection sends: the arguments of one command
CommandArgs ==
    { <<"sdiffstore", "{a}k2", "{a}k1">>, <<"mget", "{a}k1", "{b}k1">>,
      <<"watch", "{a}k1">>, <<"multi">>, <<"exec">>, <<"discard">>, <<"unwatch">>,
      <<"foo">> }

\* a commands.Commander: Name(), ReadKeys(), WriteKeys()
Commander(name, readKeys, writeKeys) ==
    [Name |-> name, ReadKeys |-> readKeys, WriteKeys |-> writeKeys]

\* commands.ParseCommand: the typed command of the arguments, or an error
ParseCommand(args) ==
    LET name == Head(args)
        rest == Tail(args)
        ok(command) == [command |-> command, err |-> NoError]
        bad == [command |-> Commander("", <<>>, <<>>),
                err |-> <<"ERR unknown command or wrong number of arguments: ", name>>]
    IN  IF name \in {"get"} /\ Len(rest) = 1 THEN ok(Commander(name, rest, <<>>))
        ELSE IF name \in {"mget", "watch"} /\ Len(rest) >= 1 THEN ok(Commander(name, rest, <<>>))
        ELSE IF name = "sdiffstore" /\ Len(rest) >= 2
             THEN ok(Commander(name, Tail(rest), <<Head(rest)>>))
        ELSE IF name \in {"multi", "exec", "discard", "unwatch"} /\ rest = <<>>
             THEN ok(Commander(name, <<>>, <<>>))
        ELSE bad

\* commands.CheckAndGetCommandKeysHashTag: the one hash tag of the command's keys,
\* empty for a command without keys
CheckAndGetCommandKeysHashTag(command) ==
    LET keys == command.ReadKeys \o command.WriteKeys
        tags == {hashTagOf(keys[i]) : i \in DOMAIN keys}
    IN  IF Cardinality(tags) > 1
        THEN [hashTag |-> "", err |-> <<"ERR keys should share one hash tag">>]
        ELSE IF tags = {} THEN [hashTag |-> "", err |-> NoError]
        ELSE [hashTag |-> CHOOSE t \in tags : TRUE, err |-> NoError]

\* commands.GetCommnadKeysAccessMode
GetCommnadKeysAccessMode(command) ==
    IF command.WriteKeys # <<>> THEN HashTagAccessModeWrite ELSE HashTagAccessModeRead

\* what the storage can answer a load with
LoadOutcomes == {NoError, <<"storage failure">>}
\* Load: nothing to load for the empty hash tag
Load(hashTag, outcome) == IF hashTag = "" THEN NoError ELSE outcome

newLoadError(err) == <<"ERR load data error, ">> \o err

\* a commands.RESPData
RESPData(dataType, value) == [DataType |-> dataType, Value |-> value]
ErrorRespType == "error"

\* commands.NewTransaction
NewTransaction == [state |-> "Idle", closed |-> FALSE]
IsClosed(transaction) == transaction.closed

\* Transaction.Process: the state machine of a connection's transaction; fails says
\* that the command ended with an error
Process(transaction, command, fails) ==
    LET moved(state, text) == [transaction |-> [state |-> state, closed |-> FALSE],
                            result |-> RESPData("simple", <<text>>)]
        closed(result) == [transaction |-> [state |-> "Closed", closed |-> TRUE],
                          result |-> result]
        name == command.Name
        state == transaction.state
    IN  IF fails
        THEN closed(RESPData(ErrorRespType, <<"ERR command failed: ", name>>))
        ELSE IF state = "Queuing"
        THEN IF name = "exec" THEN closed(RESPData("array", <<"results of the queue">>))
             ELSE IF name = "discard" THEN closed(RESPData("simple", <<"OK">>))
             ELSE moved("Queuing", "QUEUED")
        ELSE IF name = "multi" THEN moved("Queuing", "OK")
        ELSE IF name = "watch" THEN moved("Watching", "OK")
        ELSE IF name = "unwatch" THEN moved("Idle", "OK")
        ELSE IF name \in {"exec", "discard"}
        THEN closed(RESPData(ErrorRespType, <<"ERR without MULTI: ", name>>))
        ELSE [transaction |-> transaction, result |-> RESPData("bulk", <<"value of ", name>>)]

\* commands.ExecuteCommand: the answer of the Redis cluster
ExecuteCommand(command, fails) ==
    IF fails THEN RESPData(ErrorRespType, <<"ERR command failed: ", command.Name>>)
    ELSE RESPData("bulk", <<"value of ", command.Name>>)

\* transactionManager.getTransaction / addTransaction / removeTransaction
getTransaction(txs, conn) == txs[conn]
addTransaction(txs, conn, transaction) == [txs EXCEPT ![conn] = transaction]
removeTransaction(txs, conn) == [txs EXCEPT ![conn] = NoTransaction]

\* a plausible slip: EXEC counts as a command that opens a transaction
isTransactionNeededExec(command) == command.Name \in {"watch", "multi", "exec"}

\* isTransactionNeeded
isTransactionNeeded(command) == command.Name \in {"watch", "multi"}

\* getTransactionIfNeeded: the connection's transaction, created for WATCH and MULTI
getTransactionIfNeeded(txs, conn, command) ==
    LET transaction == getTransaction(txs, conn)
    IN  IF transaction = NoTransaction /\ isTransactionNeeded(command)
        THEN [transaction |-> NewTransaction, err |-> NoError, created |-> TRUE,
              transactions |-> addTransaction(txs, conn, NewTransaction)]
        ELSE [transaction |-> transaction, err |-> NoError, created |-> FALSE,
              transactions |-> txs]

\* a plausible slip: the error of Load is logged and not returned
preProcessCommandLoadIgnored(command, loadOutcome) ==
    LET checked == CheckAndGetCommandKeysHashTag(command)
    IN  IF checked.err # NoError THEN checked.err ELSE NoError

\* preProcessCommand: the hash tag check, then Load
preProcessCommand(command, loadOutcome) ==
    LET checked == CheckAndGetCommandKeysHashTag(command)
        err == Load(checked.hashTag, loadOutcome)
    IN  IF checked.err # NoError THEN checked.err
        ELSE IF err # NoError THEN newLoadError(err)
        ELSE NoError

\* a plausible slip: the transaction stays bound after it closed
processByTransactionKeep(txs, conn, transaction, command, fails) ==
    LET p == Process(transaction, command, fails)
    IN  [result |-> p.result, transactions |-> [txs EXCEPT ![conn] = p.transaction]]

\* connServeHandler, the branch of a connection with a transaction: Process, then the
\* transaction is removed when it is closed
processByTransaction(txs, conn, transaction, command, fails) ==
    LET p == Process(transaction, command, fails)
        bound == [txs EXCEPT ![conn] = p.transaction]
    IN  [result |-> p.result,
         transactions |-> IF IsClosed(p.transaction) THEN removeTransaction(bound, conn)
                          ELSE bound]

\* writeDataToConnection: what is written to the connection
writeDataToConnection(data) ==
    [error |-> data.DataType = ErrorRespType, text |-> data.Value]
\* conn.WriteError(err.Error())
WriteError(err) == [error |-> TRUE, text |-> err]

\* the outcomes of HashTagEventService.SendEvent for a valid event
SendOutcomes == {"nil", "full"}
NoCall == [called |-> FALSE]

\* a plausible slip: no test for the empty hash tag
sendCommandEventsAlways(command, accessTime, sendOutcome) ==
    LET checked == CheckAndGetCommandKeysHashTag(command)
        keys == command.ReadKeys \o command.WriteKeys
        event == HashTagEvent(checked.hashTag, SeqToSet(keys),
                              GetCommnadKeysAccessMode(command), accessTime)
    IN  IF checked.err # NoError THEN [call |-> NoCall, err |-> "errHashTag"]
        ELSE [call |-> [called |-> TRUE, hashTag |-> checked.hashTag, keys |-> keys,
                        accessMode |-> GetCommnadKeysAccessMode(command),
                        accessTime |-> accessTime],
              err |-> IF Check(event) # "nil" THEN Check(event) ELSE sendOutcome]

\* sendCommandEvents: the call of SendEvent it makes, and what it returns
sendCommandEvents(command, accessTime, sendOutcome) ==
    LET checked == CheckAndGetCommandKeysHashTag(command)
        keys == command.ReadKeys \o command.WriteKeys
        event == HashTagEvent(checked.hashTag, SeqToSet(keys),
                              GetCommnadKeysAccessMode(command), accessTime)
    IN  IF checked.err # NoError THEN [call |-> NoCall, err |-> "errHashTag"]
        ELSE IF checked.hashTag = "" THEN [call |-> NoCall, err |-> "nil"]
        ELSE [call |-> [called |-> TRUE, hashTag |-> checked.hashTag, keys |-> keys,
                        accessMode |-> GetCommnadKeysAccessMode(command),
                        accessTime |-> accessTime],
              err |-> IF Check(event) # "nil" THEN Check(event) ELSE sendOutcome]

\* one iteration of connServeHandler's loop over cmds
serveCommand(txs, conn, args, startTime, loadOutcome, fails, sendOutcome) ==
    LET parsed == ParseCommand(args)
        command == parsed.command
        preErr == preProcessCommand(command, loadOutcome)
        got == getTransactionIfNeeded(txs, conn, command)
        checked == CheckAndGetCommandKeysHashTag(command)
        \* history: what the call of Load returned
        loadErr == IF parsed.err # NoError \/ checked.err # NoError THEN <<"not called">>
                   ELSE Load(checked.hashTag, loadOutcome)
        failed(name, err) ==
            [returned |-> TRUE, failed |-> TRUE, response |-> WriteError(err),
             metrics |-> {"process.command", name}, transactions |-> txs,
             created |-> FALSE, via |-> "none", load |-> loadErr, executionFailed |-> FALSE,
             call |-> NoCall]
        done(via, result, bound) ==
            LET sent == sendCommandEvents(command, startTime, sendOutcome)
            IN  [returned |-> FALSE, failed |-> FALSE,
                 response |-> writeDataToConnection(result),
                 metrics |-> {"process.command", via}
                             \cup (IF sent.err # "nil" THEN {"error.send_event"} ELSE {}),
                 transactions |-> bound, created |-> got.created,
                 via |-> via, load |-> loadErr, executionFailed |-> fails, call |-> sent.call]
    IN  IF parsed.err # NoError THEN failed("error.parse_command", parsed.err)
        ELSE IF preErr # NoError THEN failed("error.pre_process", preErr)
        ELSE IF got.err # NoError THEN failed("error.get_transaction", got.err)
        ELSE IF got.transaction # NoTransaction
        THEN LET p == processByTransaction(got.transactions, conn, got.transaction,
                                           command, fails)
             IN  done("process.transaction", p.result, p.transactions)
        ELSE done("process.single_command", ExecuteCommand(command, fails), got.transactions)

\* the batches of pipelined commands a connection hands to connServeHandler
RECURSIVE Batches(_)
Batches(n) ==
    IF n = 0 THEN {<<>>}
    ELSE {<<>>} \cup {<<args>> \o rest : args \in CommandArgs, rest \in Batches(n - 1)}

\* the commands all connections sent so far
Arrived == nArrived["c1"] + nArrived["c2"]

\* connServeHandler is called with the commands read from the connection
ServeBegin(c, batch) ==
    /\ connPc[c] = "open"
    /\ batch # <<>>
    /\ Arrived + Len(batch) <= MaxCommands
    /\ connPc' = [connPc EXCEPT ![c] = "serving"]
    /\ cmds' = [cmds EXCEPT ![c] = batch]
    /\ nArrived' = [nArrived EXCEPT ![c] = @ + Len(batch)]
    /\ \E start \in 1..MaxClock : serveStartTime' = [serveStartTime EXCEPT ![c] = start]
    /\ UNCHANGED <<nWritten, transactions, step>>
    /\ UNCHANGED <<zvars, acvars, rqvars, pvars, avars, svars, bvars, lvars, xvars, hvars>>

\* connServeHandler: one iteration of the loop; the handler returns after the last
\* command, and after a command that failed before its execution
ServeCommand(c) ==
    /\ connPc[c] = "serving"
    /\ \E loadOutcome \in LoadOutcomes, fails \in BOOLEAN, sendOutcome \in SendOutcomes :
         LET args == Head(cmds[c])
             r == serveCommand(transactions, c, args, serveStartTime[c],
                               loadOutcome, fails, sendOutcome)
             rest == IF r.returned THEN <<>> ELSE Tail(cmds[c])
         IN  /\ step' = [conn |-> c, index |-> nArrived[c] - Len(cmds[c]) + 1,
                         args |-> args, out |-> r]
             /\ transactions' = r.transactions
             /\ cmds' = [cmds EXCEPT ![c] = rest]
             /\ connPc' = [connPc EXCEPT ![c] = IF rest = <<>> THEN "open" ELSE "serving"]
    /\ nWritten' = [nWritten EXCEPT ![c] = @ + 1]
    /\ UNCHANGED <<serveStartTime, nArrived>>
    /\ UNCHANGED <<zvars, acvars, rqvars, pvars, avars, svars, bvars, lvars, xvars, hvars>>

\* connCloseHandler: the connection is gone, its transaction is removed
ConnClose(c) ==
    /\ connPc[c] = "open"
    /\ connPc' = [connPc EXCEPT ![c] = "closed"]
    /\ transactions' = removeTransaction(transactions, c)
    /\ UNCHANGED <<cmds, serveStartTime, nArrived, nWritten, step>>
    /\ UNCHANGED <<zvars, acvars, rqvars, pvars, avars, svars, bvars, lvars, xvars, hvars>>

\* SpecServe: the connections of the server and their commands
InitServe ==
    /\ PipeInit /\ NoHistory /\ LateIdle /\ OneEventBatches /\ AggIdle /\ StoreIdle /\ BulkIdle /\ LoadIdle /\ ExpiryIdle /\ ShardIdle
    /\ connPc = [c \in Conns |-> "open"]
    /\ cmds = [c \in Conns |-> <<>>]
    /\ serveStartTime = [c \in Conns |-> 0]
    /\ nArrived = [c \in Conns |-> 0]
    /\ nWritten = [c \in Conns |-> 0]
    /\ transactions = [c \in Conns |-> NoTransaction]
    /\ step = NoStep

NextServe ==
    \/ \E c \in Conns, batch \in Batches(MaxBatch) : ServeBegin(c, batch)
    \/ \E c \in Conns : ServeCommand(c)
    \/ \E c \in Conns : ConnClose(c)

SpecServe == InitServe /\ [][NextServe]_vars

(***************************************************************************)
(* Properties of the dispatcher (checked under SpecServe)                  *)
(***************************************************************************)
ErrorMetrics == {"error.parse_command", "error.pre_process", "error.get_transaction"}

\* C12: a command of a batch that fails to parse, fails pre-processing or fails the
\* resolution of its transaction gets one RESP error and its metric, and the commands
\* that follow it in the batch are still served.
C12_ErrorShortCircuit ==
    [][\A c \in Conns : ServeCommand(c) /\ step'.out.failed =>
          /\ step'.out.response.error
          /\ nWritten'[c] = nWritten[c] + 1
          /\ step'.out.metrics \cap ErrorMetrics # {}
          /\ cmds'[c] = Tail(cmds[c])]_vars

\* C13: a command is executed, by the transaction or directly, only when Load
\* returned success in the same iteration; when Load fails the response is an error
\* that begins with "ERR load data error, ", the command is neither executed nor
\* queued, no transaction is created and SendEvent is not called.
C13_LoadGatesExecution ==
    [][\A c \in Conns : ServeCommand(c) =>
          LET out == step'.out
          IN  /\ out.via # "none" => out.load = NoError
              /\ out.load \notin {NoError, <<"not called">>} =>
                    /\ out.response.error
                    /\ Head(out.response.text) = "ERR load data error, "
                    /\ out.via = "none"
                    /\ ~out.created
                    /\ transactions' = transactions
                    /\ ~out.call.called]_vars

\* a WATCH on a connection without a transaction whose Load failed
C13_Witness ==
    /\ step # NoStep
    /\ Head(step.args) = "watch"
    /\ step.out.load = <<"storage failure">>
    /\ transactions[step.conn] = NoTransaction

\* C14: an executed command with a hash tag makes one call of SendEvent, with its
\* hash tag, its read keys followed by its write keys, its access mode and the serve
\* start time; a command without hash tag and a command that failed make none; what
\* SendEvent returns changes neither the response nor the rest of the batch.
C14_EventPerCommand ==
    [][\A c \in Conns : ServeCommand(c) =>
          LET out == step'.out
              command == ParseCommand(step'.args).command
              hashTag == CheckAndGetCommandKeysHashTag(command).hashTag
          IN  /\ ~out.failed /\ hashTag # "" =>
                    out.call = [called |-> TRUE, hashTag |-> hashTag,
                                keys |-> command.ReadKeys \o command.WriteKeys,
                                accessMode |-> GetCommnadKeysAccessMode(command),
                                accessTime |-> serveStartTime[c]]
              /\ out.failed \/ hashTag = "" => ~out.call.called
              /\ ~out.failed => cmds'[c] = Tail(cmds[c])
              /\ "error.send_event" \in out.metrics =>
                    LET sent == serveCommand(transactions, c, step'.args, serveStartTime[c],
                                             NoError, out.executionFailed, "nil")
                    IN  /\ out.call.called
                        /\ out.response = sent.response
                        /\ transactions' = sent.transactions]_vars

\* SendEvent returned an error for a command that has others behind it in the batch
C14_Witness ==
    /\ step # NoStep
    /\ step.out.call.called
    /\ "error.send_event" \in step.out.metrics
    /\ ~step.out.response.error
    /\ cmds[step.conn] # <<>>

\* C15: the k-th response written to a connection answers the k-th command the
\* connection sent (each iteration writes its response before the next command is
\* taken up).
C15_PerConnectionOrdering ==
    [][\A c \in Conns : ServeCommand(c) =>
          /\ nWritten'[c] = nWritten[c] + 1
          /\ step'.index = nWritten'[c]]_vars

\* C16: between the iterations of the loop no connection is bound to a closed
\* transaction, and a closed connection is bound to none.
C16_ClosedUnbound ==
    \A c \in Conns :
        /\ ~IsClosed(transactions[c])
        /\ connPc[c] = "closed" => transactions[c] = NoTransaction

\* an EXEC closed the transaction of the connection, which is now unbound
C16_Witness ==
    /\ step # NoStep
    /\ step.args = <<"exec">>
    /\ step.out.via = "process.transaction"
    /\ ~step.out.response.error
    /\ transactions[step.conn] = NoTransaction

\* C17: a transaction is created exactly for an executed WATCH or MULTI on a
\* connection that has none; any other executed command on such a connection goes
\* directly to the cache and leaves the connection unbound; an executed command on a
\* connection with a transaction goes through the transaction; the bindings of the
\* other connections do not change.
C17_TransactionCreation ==
    [][\A c \in Conns : ServeCommand(c) =>
          LET out == step'.out
              had == transactions[c] # NoTransaction
              name == Head(step'.args)
          IN  /\ out.created <=> (~out.failed /\ ~had /\ name \in {"watch", "multi"})
              /\ ~out.failed /\ ~had /\ name \notin {"watch", "multi"} =>
                    out.via = "process.single_command" /\ transactions'[c] = NoTransaction
              /\ ~out.failed /\ (had \/ out.created) => out.via = "process.transaction"
              /\ \A d \in Conns \ {c} : transactions'[d] = transactions[d]]_vars

\* an EXEC went directly to the cache while the other connection has a transaction
C17_Witness ==
    /\ step # NoStep
    /\ step.args = <<"exec">>
    /\ step.out.via = "process.single_command"
    /\ transactions[step.conn] = NoTransaction
    /\ \E d \in Conns \ {step.conn} : transactions[d].state = "Queuing"

(***************************************************************************)
(* SpecLoad: loadDataByID on a table with live and soft-deleted rows        *)
(***************************************************************************)
\* a row of room_data_v2; deleted says that deleted_at is not NULL
Row(m, version, deleted) ==
    [exists |-> TRUE, value |-> m, version |-> version, deleted |-> deleted]
NoRow == [exists |-> FALSE, value |-> EmptyMap, version |-> 0, deleted |-> FALSE]

\* the rows a hash tag can have
Rows ==
    {NoRow} \cup { Row(("k1" :> RedisValue("string", "old")), n, d) :
                      n \in 0..MaxInitVersion, d \in BOOLEAN }

\* DBCluster.clients of a configuration that leaves shard indexes without client
gapClients == << [startIndex |-> 0, endIndex |-> 0, client |-> "db0"] >>

\* DBCluster.Model: the query on the table and the client of the model's shard
DBClusterModel(cls, prefix, shardingKey) ==
    LET tableIndex == getTableIndex(shardingKey, ShardingCount)
        hits == { i \in 1..Len(cls) :
                     cls[i].startIndex <= tableIndex /\ tableIndex <= cls[i].endIndex }
    IN  IF hits = {}
        THEN [tableName |-> "", client |-> "nil", err |-> "no db client found"]
        ELSE [tableName |-> <<prefix, tableIndex>>,
              client |-> cls[CHOOSE i \in hits : \A j \in hits : i <= j].client,
              err |-> "nil"]

\* the model a Select fills from a row
ModelOf(hashTag, row) == [HashTag |-> hashTag, Value |-> row.value, Version |-> row.version]

\* a plausible slip: the Select has no deleted_at test
loadDataByIDDeleted(cls, tbl, hashTag, dbErr) ==
    LET query == DBClusterModel(cls, "room_data_v2", hashTag)
        row == tbl[hashTag]
    IN  IF query.err # "nil" THEN [model |-> NoModel, err |-> query.err]
        ELSE IF dbErr # "nil" THEN [model |-> NoModel, err |-> dbErr]
        ELSE IF ~row.exists THEN [model |-> NoModel, err |-> "nil"]
        ELSE [model |-> ModelOf(hashTag, row), err |-> "nil"]

\* loadDataByID: Select ... WHERE hash_tag = ? AND deleted_at is NULL; pg.ErrNoRows
\* becomes (nil, nil); dbErr is any other error of the Select
loadDataByID(cls, tbl, hashTag, dbErr) ==
    LET query == DBClusterModel(cls, "room_data_v2", hashTag)
        row == tbl[hashTag]
    IN  IF query.err # "nil" THEN [model |-> NoModel, err |-> query.err]
        ELSE IF dbErr # "nil" THEN [model |-> NoModel, err |-> dbErr]
        ELSE IF ~(row.exists /\ ~row.deleted) THEN [model |-> NoModel, err |-> "nil"]
        ELSE [model |-> ModelOf(hashTag, row), err |-> "nil"]

\* the errors of the Select other than pg.ErrNoRows
SelectErrors == {"nil", "connection refused"}

\* a call of loadDataByID
LoadDataByID(hashTag, dbErr) ==
    /\ loadArg' = [hashTag |-> hashTag, dbErr |-> dbErr]
    /\ loadRet' = loadDataByID(dbClients, table, hashTag, dbErr)
    /\ UNCHANGED <<dbClients, table>>
    /\ UNCHANGED <<zvars, acvars, rqvars, pvars, avars, svars, bvars, dvars, xvars, hvars>>

InitLoad ==
    /\ PipeInit /\ NoHistory /\ LateIdle /\ OneEventBatches /\ AggIdle /\ StoreIdle /\ BulkIdle /\ ServeIdle /\ ExpiryIdle /\ ShardIdle
    /\ dbClients \in {clients, gapClients}
    /\ table \in [HashTags -> Rows]
    /\ loadArg = NoLoad
    /\ loadRet = [model |-> NoModel, err |-> "nil"]

NextLoad == \E hashTag \in HashTags, dbErr \in SelectErrors : LoadDataByID(hashTag, dbErr)

SpecLoad == InitLoad /\ [][NextLoad]_vars

\* C18: loadDataByID returns the row's document when the row exists and is not
\* soft-deleted, (nil, nil) when there is no row or the row is soft-deleted, and an
\* error exactly when the shard has no client or the Select failed.
C18_LoadByID ==
    loadArg # NoLoad =>
        LET row == table[loadArg.hashTag]
            live == row.exists /\ ~row.deleted
            resolved == DBClusterModel(dbClients, "room_data_v2", loadArg.hashTag).err = "nil"
            healthy == resolved /\ loadArg.dbErr = "nil"
        IN  /\ healthy /\ live =>
                  loadRet = [model |-> ModelOf(loadArg.hashTag, row), err |-> "nil"]
            /\ healthy /\ ~live => loadRet = [model |-> NoModel, err |-> "nil"]
            /\ loadRet.err # "nil" <=> ~healthy
            /\ loadRet.err # "nil" => loadRet.model = NoModel

\* a load of a soft-deleted row returned (nil, nil)
C18_Witness ==
    /\ loadArg # NoLoad
    /\ table[loadArg.hashTag].exists /\ table[loadArg.hashTag].deleted
    /\ loadRet = [model |-> NoModel, err |-> "nil"]

(***************************************************************************)
(* SpecExpiry: RedisValue.IsExpired and RedisValue.TTL                     *)
(***************************************************************************)
\* times are counted in ticks since the epoch; a millisecond has TicksPerMs of them
\* (nanoseconds in the code) and a second has MsPerSecond milliseconds
TicksPerMs == 3
MsPerSecond == 2
MaxExpireTs == 4
MaxNow == 14
\* time.Time{}, long before the epoch
ZeroTime == -100

\* utility.TimestampInMS
TimestampInMS(t) == t \div TicksPerMs
\* utility.GetSecondsAndNanoSecondsFromTsInMs
GetSecondsAndNanoSecondsFromTsInMs(ts) ==
    [seconds |-> ts \div MsPerSecond, nanoSeconds |-> (ts % MsPerSecond) * TicksPerMs]
\* time.Unix(seconds, nanoSeconds)
Unix(seconds, nanoSeconds) == seconds * MsPerSecond * TicksPerMs + nanoSeconds

\* a plausible slip: a value is expired only after its expiry millisecond
IsExpiredAfter(v, t) ==
    IF v.ExpireTs = 0 THEN FALSE
    ELSE IF t = ZeroTime THEN FALSE
    ELSE TimestampInMS(t) > v.ExpireTs

\* RedisValue.IsExpired
IsExpired(v, t) ==
    IF v.ExpireTs = 0 THEN FALSE
    ELSE IF t = ZeroTime THEN FALSE
    ELSE TimestampInMS(t) >= v.ExpireTs

\* RedisValue.TTL
TTL(v, t) ==
    IF v.ExpireTs = 0 THEN -1
    ELSE LET at == GetSecondsAndNanoSecondsFromTsInMs(v.ExpireTs)
             duration == Unix(at.seconds, at.nanoSeconds) - t
         IN  IF duration < 0 THEN 0 ELSE duration

CallIsExpired ==
    /\ isExpiredRet' = IsExpired(redisValue, now)
    /\ called' = called \cup {"IsExpired"}
    /\ UNCHANGED <<redisValue, now, ttlRet>>
    /\ UNCHANGED <<zvars, acvars, rqvars, pvars, avars, svars, bvars, dvars, lvars, hvars>>

CallTTL ==
    /\ ttlRet' = TTL(redisValue, now)
    /\ called' = called \cup {"TTL"}
    /\ UNCHANGED <<redisValue, now, isExpiredRet>>
    /\ UNCHANGED <<zvars, acvars, rqvars, pvars, avars, svars, bvars, dvars, lvars, hvars>>

InitExpiry ==
    /\ PipeInit /\ NoHistory /\ LateIdle /\ OneEventBatches /\ AggIdle /\ StoreIdle /\ BulkIdle /\ ServeIdle /\ LoadIdle /\ ShardIdle
    /\ redisValue \in {[ExpireTs |-> e] : e \in 0..MaxExpireTs}
    /\ now \in {ZeroTime} \cup 0..MaxNow
    /\ called = {}
    /\ isExpiredRet = FALSE
    /\ ttlRet = 0

NextExpiry ==
    \/ CallIsExpired
    \/ CallTTL

SpecExpiry == InitExpiry /\ [][NextExpiry]_vars

\* C20: for a non-zero time t, IsExpired holds exactly when e # 0 and e <= ms(t); TTL
\* is -1 when e = 0, 0 when e # 0 and e <= ms(t), and otherwise the positive rest from
\* t to e; so for e # 0 IsExpired holds exactly when TTL is 0, and a value with e = 0
\* is never expired.
C20_ExpiryAndTTL ==
    now # ZeroTime =>
        LET e == redisValue.ExpireTs
            ms == now \div TicksPerMs
        IN  /\ "IsExpired" \in called => (isExpiredRet <=> (e # 0 /\ e <= ms))
            /\ "TTL" \in called =>
                  /\ e = 0 => ttlRet = -1
                  /\ e # 0 /\ e <= ms => ttlRet = 0
                  /\ e # 0 /\ e > ms => ttlRet > 0 /\ ttlRet = e * TicksPerMs - now
            /\ called = {"IsExpired", "TTL"} /\ e # 0 => (isExpiredRet <=> ttlRet = 0)

\* both were called at a time inside the millisecond of the expiry, after its start
C20_Witness ==
    /\ called = {"IsExpired", "TTL"}
    /\ redisValue.ExpireTs # 0
    /\ now # ZeroTime
    /\ now \div TicksPerMs = redisValue.ExpireTs
    /\ now % TicksPerMs # 0
    /\ isExpiredRet /\ ttlRet = 0

(***************************************************************************)
(* SpecIndex: getTableIndex over the whole range of shardingCount, and the *)
(* table name and client a model resolves to                               *)
(***************************************************************************)
MaxHigh == 1
MaxLow == 4
MaxCalls == 2

\* an int of the 64-bit build: high * 2^32 + low, with 0 <= low < 2^32
Int64(high, low) == [high |-> high, low |-> low]
\* the conversion uint32(n): the low 32 bits of n
Uint32(n) == n.low

\* the shardingCounts NewDBClusterFromConfig accepts: shardingCount > 0
ShardingCounts ==
    { Int64(high, low) : high \in 0..MaxHigh, low \in 0..MaxLow } \ {Int64(0, 0)}

\* getTableIndex with shardingCount an int:
\* int(crc32.ChecksumIEEE([]byte(shardingKey)) % uint32(shardingCount));
\* the remainder by a zero uint32 is a run-time panic
getTableIndexOfInt(shardingKey, shardingCount) ==
    IF Uint32(shardingCount) = 0
    THEN [panic |-> "integer divide by zero", index |-> 0]
    ELSE [panic |-> "", index |-> getTableIndex(shardingKey, Uint32(shardingCount))]

\* DBCluster.clients of a configuration whose ranges share an index
overlapClients ==
    << [startIndex |-> 0, endIndex |-> 1, client |-> "db0"],
       [startIndex |-> 1, endIndex |-> ShardingCount, client |-> "db1"] >>

\* DBCluster.GetTableNameAndDBClientByModel of a cluster with the clients cls and
\* this shardingCount: fmt.Sprintf("%s_%d", prefix, tableIndex) and getClientByIndex
GetTableNameAndDBClient(cls, shardingCount, prefix, shardingKey) ==
    LET tableIndex == getTableIndexOfInt(shardingKey, shardingCount)
        hits == { i \in 1..Len(cls) : cls[i].startIndex <= tableIndex.index
                                        /\ tableIndex.index <= cls[i].endIndex }
    IN  IF tableIndex.panic # ""
        THEN [tableName |-> <<>>, client |-> "nil", err |-> tableIndex.panic]
        ELSE IF hits = {}
        THEN [tableName |-> <<>>, client |-> "nil", err |-> "no db client found"]
        ELSE [tableName |-> <<prefix, tableIndex.index>>,
              client |-> cls[CHOOSE i \in hits : \A j \in hits : i <= j].client,
              err |-> "nil"]

\* the sharding keys of the model
ShardingKeys == HashTags \cup AccessedHashTags \cup WrittenKeys

\* a call of getTableIndex
GetTableIndex ==
    /\ Len(ixRets) < MaxCalls
    /\ ixRets' = Append(ixRets, getTableIndexOfInt(ixKey, ixCount))
    /\ UNCHANGED <<ixKey, ixCount, ixClients, ixModel, cfvars, stvars, evvars, tkvars>>
    /\ UNCHANGED <<zvars, acvars, rqvars, pvars, avars, svars, bvars, dvars, lvars, xvars>>

\* a call of GetTableNameAndDBClientByModel for a model of room_data_v2
ResolveModel ==
    /\ ixModel = NoResolution
    /\ ixModel' = GetTableNameAndDBClient(ixClients, ixCount, "room_data_v2", ixKey)
    /\ UNCHANGED <<ixKey, ixCount, ixClients, ixRets, cfvars, stvars, evvars, tkvars>>
    /\ UNCHANGED <<zvars, acvars, rqvars, pvars, avars, svars, bvars, dvars, lvars, xvars>>

InitIndex ==
    /\ PipeInit /\ NoHistory /\ LateIdle /\ OneEventBatches /\ AggIdle /\ StoreIdle /\ BulkIdle /\ ServeIdle /\ LoadIdle /\ ExpiryIdle
    /\ ixKey \in ShardingKeys
    /\ ixCount \in ShardingCounts
    /\ ixClients \in {clients, gapClients, overlapClients}
    /\ ixRets = <<>>
    /\ ixModel = NoResolution
    /\ ConfigIdle /\ StorageIdle /\ NewEventIdle /\ TickIdle

NextIndex ==
    \/ GetTableIndex
    \/ ResolveModel

SpecIndex == InitIndex /\ [][NextIndex]_vars

\* bit i of a checksum, bit 0 the lowest
Bit(c, i) == IF i >= 16 THEN (c.hi \div (2 ^ (i - 16))) % 2 ELSE (c.lo \div (2 ^ i)) % 2

\* the remainder on division by n of the number whose bits are those of r followed
\* by bits i..0 of the checksum c
RECURSIVE Remainder(_, _, _, _)
Remainder(c, n, i, r) ==
    IF i < 0 THEN r ELSE Remainder(c, n, i - 1, (2 * r + Bit(c, i)) % n)

\* CRC32-IEEE(k) mod n for an int n > 0, as two 16-bit halves: a checksum is below
\* 2^32, so it is its own remainder when n is 2^32 or more
ChecksumMod(k, n) ==
    IF n.high > 0 THEN ChecksumIEEE(k)
    ELSE [hi |-> 0, lo |-> Remainder(ChecksumIEEE(k), n.low, 31, 0)]

\* an index below 2^16 as two halves
Halves(index) == [hi |-> 0, lo |-> index]

\* C21: for every sharding key k and every configured shardingCount N > 0 the index
\* getTableIndex computes is CRC32-IEEE(k) mod N, lies in [0, N) and is the same on
\* every call; the table name a model resolves to is its prefix with that index, and
\* the client is that of the first configured range that holds the index.
C21_ShardIndex ==
    /\ \A i \in 1..Len(ixRets) :
          /\ ixRets[i].panic = ""
          /\ Halves(ixRets[i].index) = ChecksumMod(ixKey, ixCount)
          /\ 0 <= ixRets[i].index
          /\ ixCount.high > 0 \/ ixRets[i].index < ixCount.low
          /\ ixRets[i] = ixRets[1]
    /\ ixModel.err \notin {"none", "no db client found"} =>
          /\ ixModel.err = "nil"
          /\ <<ixModel.tableName[1], Halves(ixModel.tableName[2])>>
                = <<"room_data_v2", ChecksumMod(ixKey, ixCount)>>
          /\ \E i \in 1..Len(ixClients) :
                /\ ixClients[i].client = ixModel.client
                /\ ixClients[i].startIndex <= ixModel.tableName[2]
                /\ ixModel.tableName[2] <= ixClients[i].endIndex
                /\ \A j \in 1..(i - 1) :
                      ~(ixClients[j].startIndex <= ixModel.tableName[2]
                          /\ ixModel.tableName[2] <= ixClients[j].endIndex)

(***************************************************************************)
(* SpecConfig: NewDBClusterFromConfig on the shard configurations          *)
(***************************************************************************)
MaxShardings == 2

\* a DBConfig of DBClusterConfig.Shardings: its range and its URL ("" one that
\* config.check or pg.ParseURL refuses)
DBConfig(start, end, url) ==
    [StartShardingIndex |-> start, EndShardingIndex |-> end, URL |-> url]

\* the configurations a deployment can be started with
ClusterConfigs ==
    LET dbConfigs == { DBConfig(start, end, url) :
                          start \in 0..ShardingCount, end \in 0..ShardingCount,
                          url \in {"db", ""} }
    IN  { [ShardingCount |-> n, Shardings |-> shardings] :
              n \in 0..ShardingCount,
              shardings \in UNION { [1..len -> { c \in dbConfigs :
                                        c.StartShardingIndex <= c.EndShardingIndex }] :
                                    len \in 0..MaxShardings } }

\* newDBClient: the error of initDBOption, or the connected client
newDBClient(cfg) ==
    IF cfg.URL = "" THEN [client |-> "nil", err |-> "invalid db config"]
    ELSE [client |-> cfg.URL, err |-> "nil"]

\* NewDBClusterFromConfig: shardingCount <= 0 is refused, then one client per DBConfig
\* in order, the first error of newDBClient returned; the ranges are stored as given
NewDBClusterFromConfig(cfg) ==
    LET failed == { i \in 1..Len(cfg.Shardings) : newDBClient(cfg.Shardings[i]).err # "nil" }
    IN  IF cfg.ShardingCount <= 0
        THEN [cluster |-> NilCluster, err |-> "sharding_count should be greater than 0"]
        ELSE IF failed # {}
        THEN [cluster |-> NilCluster,
              err |-> newDBClient(cfg.Shardings[CHOOSE i \in failed : \A j \in failed : i <= j]).err]
        ELSE [cluster |-> [clients |-> [i \in 1..Len(cfg.Shardings) |->
                                          [startIndex |-> cfg.Shardings[i].StartShardingIndex,
                                           endIndex |-> cfg.Shardings[i].EndShardingIndex,
                                           client |-> newDBClient(cfg.Shardings[i]).client]],
                           shardingCount |-> cfg.ShardingCount],
              err |-> "nil"]

\* the start-up call of NewDBClusterFromConfig
NewDBCluster ==
    /\ newRet = NotConstructed
    /\ newRet' = NewDBClusterFromConfig(shardConfig)
    /\ UNCHANGED <<shardConfig, ixvars, stvars, evvars, tkvars>>
    /\ UNCHANGED <<zvars, acvars, rqvars, pvars, avars, svars, bvars, dvars, lvars, xvars>>

InitConfig ==
    /\ PipeInit /\ NoHistory /\ LateIdle /\ OneEventBatches /\ AggIdle /\ StoreIdle /\ BulkIdle /\ ServeIdle /\ LoadIdle /\ ExpiryIdle
    /\ IndexIdle /\ StorageIdle /\ NewEventIdle /\ TickIdle
    /\ shardConfig \in ClusterConfigs
    /\ newRet = NotConstructed

NextConfig == NewDBCluster

SpecConfig == InitConfig /\ [][NextConfig]_vars

\* the client ranges of cls that hold index
RangesWith(cls, index) ==
    { i \in 1..Len(cls) : cls[i].startIndex <= index /\ index <= cls[i].endIndex }

\* the ranges cover [0, n-1] exactly: no gap, no overlap, none outside the interval
ExactCover(cls, n) ==
    /\ \A index \in 0..(n - 1) : Cardinality(RangesWith(cls, index)) = 1
    /\ \A i \in 1..Len(cls) : 0 <= cls[i].startIndex /\ cls[i].endIndex <= n - 1

\* C23: NewDBClusterFromConfig returns an error for every configuration whose shard
\* ranges do not cover [0, shardingCount-1] exactly, so that in every constructed
\* cluster each index in [0, shardingCount) belongs to exactly one client range.
C23_RangesValidated ==
    newRet.err = "nil" =>
        /\ ExactCover(newRet.cluster.clients, newRet.cluster.shardingCount)
        /\ \A index \in 0..(newRet.cluster.shardingCount - 1) :
              Cardinality(RangesWith(newRet.cluster.clients, index)) = 1

(***************************************************************************)
(* SpecCluster: the storage calls, one caller at a time, on clusters with  *)
(* and without a client for every shard index                              *)
(***************************************************************************)
MaxStorageCalls == 1
MaxCount == 2

\* DBCluster.clients of a configuration without a client for index 0
tailClients == << [startIndex |-> 1, endIndex |-> ShardingCount - 1, client |-> "db1"] >>

\* DBCluster.Models: the table of tableIndex and the client of the first range with it
Models(cls, tablePrefix, tableIndex) ==
    LET hits == { i \in 1..Len(cls) :
                     cls[i].startIndex <= tableIndex /\ tableIndex <= cls[i].endIndex }
    IN  IF hits = {}
        THEN [tableName |-> "", client |-> "nil", err |-> "no db client found"]
        ELSE [tableName |-> <<tablePrefix, tableIndex>>,
              client |-> cls[CHOOSE i \in hits : \A j \in hits : i <= j].client,
              err |-> "nil"]

\* what a storage call gives: its error, the statements it sent to a database, the
\* rows it leaves and the models it returns
StorageResult(err, queries, st, models) ==
    [err |-> err, queries |-> queries, stored |-> st, models |-> models, attempts |-> 0]

\* loadDataByID on the stored documents
loadRoomData(cls, st, hashTag) ==
    LET res == loadDataByID(cls, st.data, hashTag, "nil")
    IN  StorageResult(res.err,
                      IF DBClusterModel(cls, "room_data_v2", hashTag).err # "nil" THEN 0 ELSE 1,
                      st,
                      IF res.model = NoModel THEN {} ELSE {res.model})

\* _upsertRoomData: nothing for a zero value; db.Model; Select by primary key; Insert
\* with version 0 on pg.ErrNoRows, else Update ... Where version = the one read
_upsertRoomData(cls, st, hashTag, key, v) ==
    LET query == DBClusterModel(cls, "room_data_v2", hashTag)
        row == st.data[hashTag]
    IN  IF IsZero(v) THEN StorageResult("nil", 0, st, {})
        ELSE IF query.err # "nil" THEN StorageResult(query.err, 0, st, {})
        ELSE IF ~row.exists
        THEN StorageResult("nil", 2, [st EXCEPT !.data[hashTag] = Row((key :> v), 0, FALSE)], {})
        ELSE StorageResult("nil", 2,
                [st EXCEPT !.data[hashTag] =
                    [row EXCEPT !.value = WithKey(@, key, v), !.version = @ + 1]], {})

\* _upsertRoomDataValue: GetTableNameAndDBClientByModel; in one transaction Select,
\* then Insert with version 0 or Update ... Where version = the one read
_upsertRoomDataValue(cls, st, hashTag, m) ==
    LET query == DBClusterModel(cls, "room_data_v2", hashTag)
        row == st.data[hashTag]
    IN  IF query.err # "nil" THEN StorageResult(query.err, 0, st, {})
        ELSE IF ~row.exists
        THEN StorageResult("nil", 2, [st EXCEPT !.data[hashTag] = Row(m, 0, FALSE)], {})
        ELSE StorageResult("nil", 2,
                [st EXCEPT !.data[hashTag] = [row EXCEPT !.value = m, !.version = @ + 1]], {})

\* the error the database answers an attempt with, "nil" for none: a CAS miss
\* (RowsAffected 0) comes from the Update of a row that was read, an integrity
\* violation from the Insert after pg.ErrNoRows, another error from any statement
FaultOf(st, call, i) ==
    LET fault == IF i + 1 <= Len(call.faults) THEN call.faults[i + 1] ELSE "nil"
        exists == st.data[call.hashTag].exists
    IN  IF fault = errNoRowsUpdated /\ ~exists THEN "nil"
        ELSE IF fault = errIntegrityViolation /\ exists THEN "nil"
        ELSE fault

\* one call of _upsertRoomData / _upsertRoomDataValue: when its statements reach the
\* database and the database answers with an error, the error is returned and no row
\* is written
upsertAttempt(cls, st, call, i) ==
    LET try == IF call.op = "upsert"
               THEN _upsertRoomData(cls, st, call.hashTag, call.key, call.value)
               ELSE _upsertRoomDataValue(cls, st, call.hashTag, call.value)
    IN  IF try.queries > 0 /\ FaultOf(st, call, i) # "nil"
        THEN StorageResult(FaultOf(st, call, i), try.queries, st, {})
        ELSE try

\* a plausible slip: the loop goes on after every error
upsertLoopRetryAll(cls, res, call, i) ==
    LET RECURSIVE loop(_, _)
        loop(r, j) ==
            IF j >= call.tryTimes THEN r
            ELSE LET try == upsertAttempt(cls, r.stored, call, j)
                     sofar == [try EXCEPT !.queries = @ + r.queries,
                                          !.attempts = r.attempts + 1]
                 IN  IF try.err # "nil" THEN loop(sofar, j + 1) ELSE sofar
    IN  loop(res, i)

\* for i := 0; i < tryTimes; i++ of upsertRoomData and upsertRoomDataValue, from
\* iteration i on; res is err and what the iterations before have done
RECURSIVE upsertLoop(_, _, _, _)
upsertLoop(cls, res, call, i) ==
    IF i >= call.tryTimes THEN res
    ELSE LET try == upsertAttempt(cls, res.stored, call, i)
             sofar == [try EXCEPT !.queries = @ + res.queries, !.attempts = res.attempts + 1]
         IN  IF try.err # "nil" /\ isRetryErrorForUpdateInTx(try.err)
             THEN upsertLoop(cls, sofar, call, i + 1)
             ELSE sofar

\* upsertRoomData / upsertRoomDataValue: var err error, the loop, return err
upsertRoomData(cls, st, call) == upsertLoop(cls, StorageResult("nil", 0, st, {}), call, 0)

\* a plausible slip: the error of db.Model is dropped and the UPDATE sent
deleteRoomDataUnchecked(cls, st, hashTag, key) ==
    LET row == st.data[hashTag]
    IN  IF ~row.exists THEN StorageResult("nil", 1, st, {})
        ELSE StorageResult("nil", 1,
                [st EXCEPT !.data[hashTag] =
                    [row EXCEPT !.value = WithoutKey(@, key), !.version = @ + 1]], {})

\* deleteRoomData: db.Model, then UPDATE ... SET value = value - key,
\* version = version + 1 by primary key
deleteRoomData(cls, st, hashTag, key) ==
    LET query == DBClusterModel(cls, "room_data_v2", hashTag)
        row == st.data[hashTag]
    IN  IF query.err # "nil" THEN StorageResult(query.err, 0, st, {})
        ELSE IF ~row.exists THEN StorageResult("nil", 1, st, {})
        ELSE StorageResult("nil", 1,
                [st EXCEPT !.data[hashTag] =
                    [row EXCEPT !.value = WithoutKey(@, key), !.version = @ + 1]], {})

\* getClusterModelsFromWrittenRecordModels / ...AccessedRecordModelsV2 on the cluster
\* with the clients cls: table name -> its models, or the first resolution error
clusterModelsIn(cls, prefix, models) ==
    LET where == [i \in 1..Len(models) |-> DBClusterModel(cls, prefix, models[i].pk)]
        names == { where[i].tableName : i \in 1..Len(models) }
    IN  IF \E i \in 1..Len(models) : where[i].err # "nil"
        THEN [err |-> "no db client found", groups |-> [t \in {} |-> <<>>]]
        ELSE [err |-> "nil",
              groups |-> [t \in names |->
                            SelectIn(models, { m \in SeqToSet(models) :
                                DBClusterModel(cls, prefix, m.pk).tableName = t })]]

\* bulkUpsertWrittenRecordModels / bulkUpsertAccessedRecordModelsV2 on the rows of
\* their table, the range over the groups delivering them in this order
bulkUpsert(cls, st, kind, prefix, models, order) ==
    LET cm == clusterModelsIn(cls, prefix, models)
        res == RunStatements(st[kind], cm.groups, order, {})
    IN  IF cm.err # "nil" THEN StorageResult(cm.err, 0, st, {})
        ELSE StorageResult(res.err,
                           Cardinality(res.done) + (IF res.err # "nil" THEN 1 ELSE 0),
                           [st EXCEPT ![kind] = res.rows], {})

\* for index := 0; index < shardingCount; index++ of loadWrittenRecordModels and
\* loadAccessedRecordModels from index on: db.Models, the Select, the first shard
\* with rows; matching is the keys of the rows the Where of the query admits
RECURSIVE scanShards(_, _, _, _, _)
scanShards(cls, tablePrefix, matching, index, queries) ==
    IF index >= ShardingCount THEN [found |-> {}, err |-> "nil", queries |-> queries]
    ELSE IF Models(cls, tablePrefix, index).err # "nil"
    THEN [found |-> {}, err |-> Models(cls, tablePrefix, index).err, queries |-> queries]
    ELSE LET found == { pk \in matching : getTableIndex(pk, ShardingCount) = index }
         IN  IF found # {}
             THEN [found |-> found, err |-> "nil", queries |-> queries + 1]
             ELSE scanShards(cls, tablePrefix, matching, index + 1, queries + 1)

\* loadWrittenRecordModels(count)
loadWrittenRecordModels(cls, st) ==
    scanShards(cls, "room_written_record", DOMAIN st.written, 0, 0)

\* loadAccessedRecordModels(count, t, excludedHashTags)
loadAccessedRecordModels(cls, st, t, excludedHashTags) ==
    scanShards(cls, "room_accessed_record_v2",
               { pk \in DOMAIN st.accessed : st.accessed[pk] < t /\ pk \notin excludedHashTags },
               0, 0)

\* the storage calls and their arguments
StorageCalls ==
    { [op |-> "load", hashTag |-> h] : h \in HashTags }
    \cup { [op |-> "upsert", hashTag |-> h, key |-> k, value |-> v, tryTimes |-> n,
            faults |-> <<>>] :
              h \in HashTags, k \in KeyNames, v \in {RedisValue("string", "new"), ZeroValue},
              n \in {0, 1} }
    \cup { [op |-> "upsertValue", hashTag |-> h,
            value |-> ("k2" :> RedisValue("string", "new")), tryTimes |-> n,
            faults |-> <<>>] :
              h \in HashTags, n \in {0, 1} }
    \cup { [op |-> "delete", hashTag |-> h, key |-> k] : h \in HashTags, k \in KeyNames }
    \cup { [op |-> "bulkWritten", models |-> ms] : ms \in BulkInputs(WrittenKeys) }
    \cup { [op |-> "bulkAccessed", models |-> ms] : ms \in BulkInputs(AccessedHashTags) }
    \cup { [op |-> "scanWritten", count |-> n] : n \in 1..MaxCount }
    \cup { [op |-> "scanAccessed", count |-> n, t |-> t, excludedHashTags |-> ex] :
              n \in 1..MaxCount, t \in 1..(MaxTs + 1), ex \in SUBSET AccessedHashTags }

\* the rows Limit(count) keeps of the rows found: any count of them
Limited(found, count) ==
    { sel \in SUBSET found :
         Cardinality(sel) = IF Cardinality(found) < count THEN Cardinality(found) ELSE count }

\* a storage call runs from its first statement to its return
StorageCall(call) ==
    /\ nStCalls < MaxStorageCalls
    /\ nStCalls' = nStCalls + 1
    /\ stCall' = call
    /\ CASE call.op = "load" ->
              LET res == loadRoomData(stClients, stored, call.hashTag)
              IN  stored' = res.stored /\ stRet' = [err |-> res.err, queries |-> res.queries, models |-> res.models]
         [] call.op \in {"upsert", "upsertValue"} ->
              LET res == upsertRoomData(stClients, stored, call)
              IN  /\ stored' = res.stored
                  /\ stRet' = [err |-> res.err, queries |-> res.queries, models |-> {},
                               attempts |-> res.attempts]
         [] call.op = "delete" ->
              LET res == deleteRoomData(stClients, stored, call.hashTag, call.key)
              IN  stored' = res.stored /\ stRet' = [err |-> res.err, queries |-> res.queries, models |-> {}]
         [] call.op \in {"bulkWritten", "bulkAccessed"} ->
              LET kind == IF call.op = "bulkWritten" THEN "written" ELSE "accessed"
                  prefix == IF call.op = "bulkWritten" THEN "room_written_record"
                            ELSE "room_accessed_record_v2"
              IN  \E order \in Perms(DOMAIN clusterModelsIn(stClients, prefix, call.models).groups) :
                     LET res == bulkUpsert(stClients, stored, kind, prefix, call.models, order)
                     IN  stored' = res.stored /\ stRet' = [err |-> res.err, queries |-> res.queries, models |-> {}]
         [] call.op \in {"scanWritten", "scanAccessed"} ->
              LET res == IF call.op = "scanWritten"
                         THEN loadWrittenRecordModels(stClients, stored)
                         ELSE loadAccessedRecordModels(stClients, stored, call.t, call.excludedHashTags)
              IN  /\ stored' = stored
                  /\ \E sel \in Limited(res.found, call.count) :
                        stRet' = [err |-> res.err, queries |-> res.queries, models |-> sel]
    /\ UNCHANGED <<stClients, ixvars, cfvars, evvars, tkvars>>
    /\ UNCHANGED <<zvars, acvars, rqvars, pvars, avars, svars, bvars, dvars, lvars, xvars>>

\* the rows a record table can hold
RecordRows(pks) == UNION { [S -> 1..MaxTs] : S \in SUBSET pks }

InitCluster ==
    /\ PipeInit /\ NoHistory /\ LateIdle /\ OneEventBatches /\ AggIdle /\ StoreIdle /\ BulkIdle /\ ServeIdle /\ LoadIdle /\ ExpiryIdle
    /\ IndexIdle /\ ConfigIdle /\ NewEventIdle /\ TickIdle
    /\ stClients \in {clients, gapClients, tailClients, overlapClients}
    /\ stored \in [data : [HashTags -> { r \in Rows : r.version = 0 }],
                   written : RecordRows(WrittenKeys),
                   accessed : RecordRows(AccessedHashTags)]
    /\ stCall = NoStorageCall
    /\ stRet = NoStorageRet
    /\ nStCalls = 0

NextCluster == \E call \in StorageCalls : StorageCall(call)

SpecCluster == InitCluster /\ [][NextCluster]_vars

\* no configured client range holds the shard index of the key
NoClient(cls, shardingKey) ==
    \A i \in 1..Len(cls) :
        ~(cls[i].startIndex <= getTableIndex(shardingKey, ShardingCount)
            /\ getTableIndex(shardingKey, ShardingCount) <= cls[i].endIndex)

\* the sharding keys a call addresses, and the table prefix of their models
KeysOf(call) ==
    IF call.op \in {"load", "upsert", "upsertValue", "delete"} THEN {call.hashTag}
    ELSE IF call.op \in {"bulkWritten", "bulkAccessed"} THEN { m.pk : m \in SeqToSet(call.models) }
    ELSE {}
PrefixOf(call) ==
    IF call.op \in {"bulkWritten", "scanWritten"} THEN "room_written_record"
    ELSE IF call.op \in {"bulkAccessed", "scanAccessed"} THEN "room_accessed_record_v2"
    ELSE "room_data_v2"

\* the indexes without client that the scan comes to: every index before has a
\* client and no row for the scan
ReachedWithoutClient(cls, st, call) ==
    LET rows == IF call.op = "scanWritten" THEN DOMAIN st.written
                ELSE { pk \in DOMAIN st.accessed :
                          st.accessed[pk] < call.t /\ pk \notin call.excludedHashTags }
        bare(index) == \A i \in 1..Len(cls) :
                          ~(cls[i].startIndex <= index /\ index <= cls[i].endIndex)
    IN  IF call.op \notin {"scanWritten", "scanAccessed"} THEN {}
        ELSE { index \in 0..(ShardingCount - 1) :
                  /\ bare(index)
                  /\ \A j \in 0..(index - 1) :
                        ~bare(j) /\ \A pk \in rows : getTableIndex(pk, ShardingCount) # j }

\* an upsert that makes no attempt to reach the row: upsertRoomData of a value of
\* empty kind, or an upsert with tryTimes <= 0
NoAttempt(call) ==
    \/ call.op = "upsert" /\ IsZero(call.value)
    \/ call.op \in {"upsert", "upsertValue"} /\ call.tryTimes <= 0

\* C22 as stated: if no configured client range holds the shard index of a key, shard
\* resolution for it returns 'no db client found', and every storage operation on that
\* key (load, single-key upsert, full-map upsert, delete, bulk record upsert, scan over
\* that index) returns an error without issuing any query and without changing any
\* stored state.
C22_MissingRange ==
    [][\A call \in StorageCalls : StorageCall(call) =>
          /\ \A k \in KeysOf(call) : NoClient(stClients, k) =>
                /\ DBClusterModel(stClients, PrefixOf(call), k).err = "no db client found"
                /\ stRet'.err # "nil"
                /\ stRet'.queries = 0
                /\ stored' = stored
          /\ \A index \in ReachedWithoutClient(stClients, stored, call) :
                /\ Models(stClients, PrefixOf(call), index).err = "no db client found"
                /\ stRet'.err # "nil"
                /\ stRet'.queries = 0
                /\ stored' = stored]_vars

\* C22, amended: as stated for load, delete, bulk record upsert and the upserts that
\* make an attempt; an upsert that makes none returns nil, without query or change; a
\* scan that comes to the index returns the error without a query on that index, after
\* one query on each index before it, and returns no rows.
C22_MissingRangeAttempted ==
    [][\A call \in StorageCalls : StorageCall(call) =>
          /\ \A k \in KeysOf(call) : NoClient(stClients, k) =>
                /\ DBClusterModel(stClients, PrefixOf(call), k).err = "no db client found"
                /\ stRet'.err = IF NoAttempt(call) THEN "nil" ELSE "no db client found"
                /\ stRet'.queries = 0
                /\ stored' = stored
          /\ \A index \in ReachedWithoutClient(stClients, stored, call) :
                /\ Models(stClients, PrefixOf(call), index).err = "no db client found"
                /\ stRet'.err = "no db client found"
                /\ stRet'.queries = index
                /\ stRet'.models = {}
                /\ stored' = stored]_vars

\* a delete of a key of an existing document whose shard has no client was refused
C22_Witness ==
    /\ stCall.op = "delete"
    /\ NoClient(stClients, stCall.hashTag)
    /\ stored.data[stCall.hashTag].exists
    /\ stCall.key \in DOMAIN stored.data[stCall.hashTag].value
    /\ stRet.err = "no db client found"

\* the rows a scan's query admits: every written record, or the accessed records
\* with accessed_at before t whose hash tag is not excluded
MatchingRows(st, call) ==
    IF call.op = "scanWritten" THEN DOMAIN st.written
    ELSE { pk \in DOMAIN st.accessed : st.accessed[pk] < call.t /\ pk \notin call.excludedHashTags }

\* C31: a shard scan returns rows of the lowest shard index that has a matching row:
\* all of them from that one shard, at most count of them, all matching the filter;
\* and it returns no row and no error exactly when no shard has a matching row.
C31_ShardScan ==
    stCall.op \in {"scanWritten", "scanAccessed"} =>
        LET rows == MatchingRows(stored, stCall)
            first == { pk \in rows : \A other \in rows :
                          getTableIndex(pk, ShardingCount) <= getTableIndex(other, ShardingCount) }
        IN  /\ (stRet.err = "nil" /\ stRet.models = {}) <=> rows = {}
            /\ rows # {} =>
                  /\ stRet.err = "nil"
                  /\ stRet.models # {}
                  /\ stRet.models \subseteq first
                  /\ Cardinality(stRet.models) <= stCall.count

\* C34: whenever upsertRoomData(hashTag, key, value, tryTimes) returns nil, the stored
\* document of hashTag maps key to value, and loadDataByID(hashTag) right after it
\* returns a document with that key and value: for every tryTimes, every value and
\* every prior state of the row (absent, live, soft-deleted).
C34_UpsertDurable ==
    (stCall.op = "upsert" /\ stRet.err = "nil") =>
        LET row == stored.data[stCall.hashTag]
            read == loadDataByID(stClients, stored.data, stCall.hashTag, "nil")
        IN  /\ row.exists
            /\ stCall.key \in DOMAIN row.value
            /\ row.value[stCall.key] = stCall.value
            /\ read.err = "nil"
            /\ read.model # NoModel
            /\ stCall.key \in DOMAIN read.model.Value
            /\ read.model.Value[stCall.key] = stCall.value

(***************************************************************************)
(* SpecRetry: upsertRoomData and upsertRoomDataValue when the database     *)
(* answers attempts with errors                                            *)
(***************************************************************************)
\* what the database can answer an attempt with: nothing wrong, a CAS miss, an
\* integrity violation, pg.ErrTxDone, an error of another kind
Faults == {"nil", errNoRowsUpdated, errIntegrityViolation, "tx done", "connection refused"}

\* the upserts, their tryTimes and the answers of the database to their attempts
RetryCalls ==
    UNION { { [op |-> "upsert", hashTag |-> h, key |-> k, value |-> v, tryTimes |-> n,
               faults |-> f] :
                 h \in HashTags, k \in KeyNames,
                 v \in {RedisValue("string", "new"), ZeroValue}, f \in [1..n -> Faults] }
            \cup { [op |-> "upsertValue", hashTag |-> h,
                    value |-> ("k2" :> RedisValue("string", "new")), tryTimes |-> n,
                    faults |-> f] :
                      h \in HashTags, f \in [1..n -> Faults] } : n \in 0..TryTimes }

InitRetry ==
    /\ PipeInit /\ NoHistory /\ LateIdle /\ OneEventBatches /\ AggIdle /\ StoreIdle /\ BulkIdle /\ ServeIdle /\ LoadIdle /\ ExpiryIdle
    /\ IndexIdle /\ ConfigIdle /\ NewEventIdle /\ TickIdle
    /\ stClients = clients
    /\ stored \in [data : [HashTags -> { r \in Rows : ~r.deleted }],
                   written : {EmptyMap},
                   accessed : {EmptyMap}]
    /\ stCall = NoStorageCall
    /\ stRet = NoStorageRet
    /\ nStCalls = 0

NextRetry == \E call \in RetryCalls : StorageCall(call)

SpecRetry == InitRetry /\ [][NextRetry]_vars

\* the errors after which the spec has the loop try again
RetryableErrors == {errNoRowsUpdated, errIntegrityViolation, "tx done"}

\* what the database answers attempt i of the call with, the rows being st before the
\* call; an upsertRoomData of a value of empty kind sends no statement
AnswerOf(st, call, i) ==
    IF call.op = "upsert" /\ IsZero(call.value) THEN "nil"
    ELSE IF call.faults[i] = errNoRowsUpdated /\ ~st.data[call.hashTag].exists THEN "nil"
    ELSE IF call.faults[i] = errIntegrityViolation /\ st.data[call.hashTag].exists THEN "nil"
    ELSE call.faults[i]

\* the first attempt that is not answered with a retryable error, 0 if there is none
LastAttempt(st, call) ==
    LET ends == { i \in 1..call.tryTimes : AnswerOf(st, call, i) \notin RetryableErrors }
    IN  IF ends = {} THEN 0 ELSE CHOOSE i \in ends : \A j \in ends : i <= j

\* C30: upsertRoomData and upsertRoomDataValue make at most tryTimes attempts; the
\* attempt after a failed one is made exactly when the failure is a CAS miss, an
\* integrity violation or transaction-already-done; another error is returned by the
\* attempt that produces it; a successful attempt ends the loop with nil and the
\* write done; when all tryTimes attempts fail with retryable errors the last of
\* them is returned and the rows are as before the call.
C30_BoundedRetry ==
    [][\A call \in RetryCalls : StorageCall(call) =>
          LET last == LastAttempt(stored, call)
              row == stored'.data[call.hashTag]
          IN  /\ stRet'.attempts <= call.tryTimes
              /\ last # 0 =>
                    /\ stRet'.attempts = last
                    /\ stRet'.err = AnswerOf(stored, call, last)
                    /\ stRet'.err # "nil" => stored' = stored
                    /\ (stRet'.err = "nil" /\ ~(call.op = "upsert" /\ IsZero(call.value))) =>
                          /\ row.exists
                          /\ IF call.op = "upsert"
                             THEN call.key \in DOMAIN row.value /\ row.value[call.key] = call.value
                             ELSE row.value = call.value
              /\ (last = 0 /\ call.tryTimes > 0) =>
                    /\ stRet'.attempts = call.tryTimes
                    /\ stRet'.err = AnswerOf(stored, call, call.tryTimes)
                    /\ stRet'.err \in RetryableErrors
                    /\ stored' = stored
              /\ call.tryTimes = 0 =>
                    stRet'.attempts = 0 /\ stRet'.err = "nil" /\ stored' = stored]_vars

\* an upsert with tryTimes = TryTimes has returned the CAS miss of its last attempt
C30_Witness ==
    /\ stCall # NoStorageCall
    /\ stCall.tryTimes = TryTimes
    /\ stRet.attempts = TryTimes
    /\ stRet.err = errNoRowsUpdated

(***************************************************************************)
(* SpecEvent: NewHashTagEvent on the arguments a caller can pass           *)
(***************************************************************************)
MaxKeys == 2

\* utility.NewStringSet(keys...): the set of the items, each once
NewStringSet(keys) == { keys[i] : i \in 1..Len(keys) }

\* NewHashTagEvent: the event of the arguments when Check passes, else the zero event
\* and the error of Check
NewHashTagEvent(hashTag, keys, accessMode, accessTime) ==
    LET event == HashTagEvent(hashTag, NewStringSet(keys), accessMode, accessTime)
    IN  IF Check(event) # "nil" THEN [event |-> ZeroEvent, err |-> Check(event)]
        ELSE [event |-> event, err |-> "nil"]

\* the arguments of a call: HashTagAccessMode is a string type, so a caller can pass
\* any string for the access mode
NewEventInputs ==
    [hashTag : {"", "a"},
     keys : UNION { [1..n -> KeyNames] : n \in 0..MaxKeys },
     accessMode : {"", HashTagAccessModeRead, HashTagAccessModeWrite, "delete"},
     accessTime : 0..1]

\* a call of NewHashTagEvent
CallNewHashTagEvent ==
    /\ newEventRet = NoEventRet
    /\ newEventRet' = NewHashTagEvent(newEventArgs.hashTag, newEventArgs.keys,
                                      newEventArgs.accessMode, newEventArgs.accessTime)
    /\ UNCHANGED <<newEventArgs, ixvars, cfvars, stvars, tkvars>>
    /\ UNCHANGED <<zvars, acvars, rqvars, pvars, avars, svars, bvars, dvars, lvars, xvars>>

InitEvent ==
    /\ PipeInit /\ NoHistory /\ LateIdle /\ OneEventBatches /\ AggIdle /\ StoreIdle /\ BulkIdle /\ ServeIdle /\ LoadIdle /\ ExpiryIdle
    /\ IndexIdle /\ ConfigIdle /\ StorageIdle /\ TickIdle
    /\ newEventArgs \in NewEventInputs
    /\ newEventRet = NoEventRet

NextEvent == CallNewHashTagEvent

SpecEvent == InitEvent /\ [][NextEvent]_vars

\* C25: every event NewHashTagEvent / SendEvent accepts (a call returning nil) has
\* access mode read or write, and a call with any other access mode is rejected with
\* an error.
C25_AccessModeDomain ==
    newEventRet # NoEventRet =>
        /\ newEventRet.err = "nil" => newEventRet.event.AccessMode \in AccessModes
        /\ newEventArgs.accessMode \notin AccessModes => newEventRet.err # "nil"

(***************************************************************************)
(* Properties of the start of the workers (checked under SpecStart)        *)
(***************************************************************************)
\* C27: for every interleaving of the start of the workers with Stop, when Stop closes
\* collectedEventBuffer and eventBuffer the aggregator, the collector and every
\* reporter have returned: no worker sends to a closed channel, none receives the
\* zero event of a closed channel, and no worker runs beside the drain.
C27_WorkersExitedBeforeClose ==
    /\ (collectedEventBuffer.closed \/ eventBuffer.closed) => WorkersExited
    /\ panicked # "send on closed channel"
    /\ "" \notin DOMAIN events

\* the events held in the pipeline: in the channels, the map, the collector's slice,
\* the reporters' batches and the batch of the drain's flush
HeldEvents ==
    SeqToSet(eventBuffer.buf) \cup { events[h] : h \in DOMAIN events }
    \cup SeqToSet(collectedEventBuffer.buf) \cup SeqToSet(colPending)
    \cup UNION { SeqToSet(repBatch[r]) : r \in Reporters }
    \cup UNION { SeqToSet(flushBatch[s]) : s \in Stoppers }

\* C24: SendEvent with an empty hash tag, an empty key list, an empty access mode or a
\* zero access time returns the validation error for it and enqueues nothing; and
\* every event held in the pipeline (eventBuffer, the aggregation map,
\* collectedEventBuffer, a reporter's batch), also after a merge, has a non-empty hash
\* tag, a non-empty key set and a non-zero access time.
C24_ValidatedEvents ==
    /\ [](\A e \in HeldEvents : e.HashTag # "" /\ e.Keys # {} /\ e.AccessTime # 0)
    /\ [][\A e \in SendInputs : SendEvent(e) =>
             /\ e.HashTag = "" => sendRet' = "ErrEventHashKeyEmpty"
             /\ (e.HashTag = "" \/ e.Keys = {} \/ e.AccessMode = "" \/ e.AccessTime = 0) =>
                   /\ sendRet' \in {"ErrEventHashKeyEmpty", "ErrEventAccessModeEmpty",
                                    "ErrEventAccessTimeEmpty", "ErrEventNoKeys"}
                   /\ eventBuffer' = eventBuffer]_vars

(***************************************************************************)
(* Properties of the send boundary and of the reporters (checked under     *)
(* Spec)                                                                   *)
(***************************************************************************)
\* C26: a SendEvent of a valid event on the eventBuffer Stop's drain has closed does
\* not panic in the caller: the call returns (nil), error.send_event_panic is
\* recorded, and the event is added to no buffer and not to the map.
C26_SendPanicRecovered ==
    [][\A e \in ValidEvents : (eventBuffer.closed /\ SendEvent(e)) =>
          /\ panicked' = panicked
          /\ sendRet' = "nil"
          /\ metricSendEventPanic \in metric'
          /\ eventBuffer' = eventBuffer
          /\ events' = events
          /\ collectedEventBuffer' = collectedEventBuffer
          /\ HeldEvents' = HeldEvents]_vars

C26_Witness == eventBuffer.closed /\ metricSendEventPanic \in metric /\ panicked = "none"

\* event b stands for the accepted event e: its hash tag, all its keys, a time not
\* before its time, and write if it was a write
Covers(b, e) ==
    /\ b.HashTag = e.HashTag
    /\ e.Keys \subseteq b.Keys
    /\ b.AccessTime >= e.AccessTime
    /\ e.AccessMode = HashTagAccessModeWrite => b.AccessMode = HashTagAccessModeWrite

\* the events of a slice or channel buffer that stand for e, counted
CountIn(q, e) == Cardinality({ i \in 1..Len(q) : Covers(q[i], e) })

\* in how many places of the pipeline an event stands for e: eventBuffer, the map, the
\* collector's slice, collectedEventBuffer, the reporters' batches
PlacesHolding(e) ==
    CountIn(eventBuffer.buf, e)
    + Cardinality({ h \in DOMAIN events : Covers(events[h], e) })
    + CountIn(colPending, e)
    + CountIn(collectedEventBuffer.buf, e)
    + Cardinality({ <<r, i>> \in Reporters \X (1..RequestMaxEvent) :
                       i <= Len(repBatch[r]) /\ Covers(repBatch[r][i], e) })

\* e was in a batch that a reporter or the flush of a drain POSTed
Reported(e) ==
    \/ \E b \in posted : Covers(b, e)
    \/ \E s \in Stoppers : \E i \in 1..Len(flushed[s]) :
          \E b \in SeqToSet(flushed[s][i]) : Covers(b, e)

\* no POST was answered otherwise than with 200, no drain timer fired, no panic
HealthySoFar ==
    /\ panicked = "none"
    /\ metricReportEventsError \notin metric
    /\ metricDrainEventError \notin metric

C33_NilMeansEnqueued ==
    [][\A e \in SendInputs : SendEvent(e) =>
          (sendRet' = "nil" <=> eventBuffer'.buf = Append(eventBuffer.buf, e))]_vars

\* C29: every POST of a reporter or of the drain's flush carries between 1 and
\* requestMaxEvent events, an empty batch is not POSTed; a reporter's batch is closed
\* when it holds requestMaxEvent events, on the tick of requestMaxWaitDuration and on
\* the stop signal, and on nothing else; the events a reporter holds when it takes the
\* stop signal are POSTed before it returns.
C29_MicroBatch ==
    /\ [](/\ \A r \in Reporters :
                /\ Len(repBatch[r]) <= requestMaxEvent
                /\ repPc[r] = "batch" => Len(repBatch[r]) < requestMaxEvent
                /\ repPc[r] = "done" => repBatch[r] = <<>>
          /\ \A s \in Stoppers :
                /\ Len(flushBatch[s]) < requestMaxEvent
                /\ \A i \in 1..Len(flushed[s]) : Len(flushed[s][i]) \in 1..requestMaxEvent)
    /\ [][\A r \in Reporters :
             /\ (RepPost(r) /\ repBatch[r] = <<>>) =>
                   posted' = posted /\ metric' = metric /\ panicked' = panicked
             /\ (RepPost(r) /\ repBatch[r] # <<>>) =>
                   \/ posted' = posted \cup SeqToSet(repBatch[r]) /\ metric' = metric
                   \/ posted' = posted /\ metricReportEventsError \in metric'
                   \/ posted' = posted /\ panicked' = "nil pointer dereference"
             /\ (repPc[r] = "batch" /\ repPc'[r] = "post") =>
                   \/ Len(repBatch'[r]) = requestMaxEvent
                   \/ RepTick(r)
                   \/ RepStopSignal(r)
             /\ RepTick(r) => repPc'[r] = "post" /\ repBatch'[r] = repBatch[r]
             /\ RepStopSignal(r) =>
                   repPc'[r] = "post" /\ repStop'[r] /\ repBatch'[r] = repBatch[r]
             /\ (repPc[r] # "done" /\ repPc'[r] = "done") =>
                   repStop[r] /\ RepPost(r)]_vars

\* a reporter took the stop signal with a batch that is neither empty nor full
C29_Witness ==
    \E r \in Reporters :
        /\ repStop[r] /\ repPc[r] = "post"
        /\ Len(repBatch[r]) >= 1 /\ Len(repBatch[r]) < requestMaxEvent

(***************************************************************************)
(* SpecTick: aggregateEvent and _collect under the mutex, the Keys of an   *)
(* event being the *StringSet they are                                     *)
(***************************************************************************)
MaxMerges == 3
MaxTicks == 2

\* aggregateEvent with the sets by address: heap[a] is the set at address a, and the
\* Keys of event and of the entries of evs are addresses. AddItems changes the saved
\* entry's set in place and the map keeps that address.
aggregateEventByRef(heap, evs, event) ==
    IF event.HashTag \in DOMAIN evs
    THEN LET savedEvent == evs[event.HashTag]
             mode == IF savedEvent.AccessMode = HashTagAccessModeWrite
                     THEN savedEvent.AccessMode ELSE event.AccessMode
             time == IF savedEvent.AccessTime > event.AccessTime
                     THEN savedEvent.AccessTime ELSE event.AccessTime
         IN  [heap |-> [heap EXCEPT ![savedEvent.Keys] = @ \cup heap[event.Keys]],
              evs |-> [evs EXCEPT ![event.HashTag] =
                          HashTagEvent(event.HashTag, savedEvent.Keys, mode, time)]]
    ELSE [heap |-> heap, evs |-> (event.HashTag :> event) @@ evs]

\* aggregateEvents: an event that SendEvent made, with its own new StringSet, is
\* received and merged under the mutex
MergeByRef(event) ==
    /\ Len(merged) < MaxMerges
    /\ LET ref == Len(keySets) + 1
           res == aggregateEventByRef(Append(keySets, event.Keys), eventsByRef,
                                      [event EXCEPT !.Keys = ref])
       IN  /\ keySets' = res.heap
           /\ eventsByRef' = res.evs
    /\ merged' = Append(merged, event)
    /\ inWindow' = [h \in DOMAIN inWindow \cup {event.HashTag} |->
                      IF h # event.HashTag THEN inWindow[h]
                      ELSE (IF h \in DOMAIN inWindow THEN inWindow[h] ELSE {})
                              \cup {Len(merged) + 1}]
    /\ UNCHANGED <<collections, ixvars, cfvars, stvars, evvars>>
    /\ UNCHANGED <<zvars, acvars, rqvars, pvars, avars, svars, bvars, dvars, lvars, xvars>>

\* a plausible slip: _collect copies the entries and does not delete them
CollectByRefKeep ==
    /\ Len(collections) < MaxTicks
    /\ collections' = Append(collections,
                             { [event |-> eventsByRef[h],
                                keys |-> keySets[eventsByRef[h].Keys],
                                sources |-> inWindow[h]] : h \in DOMAIN eventsByRef })
    /\ UNCHANGED <<eventsByRef, inWindow>>
    /\ UNCHANGED <<keySets, merged, ixvars, cfvars, stvars, evvars>>
    /\ UNCHANGED <<zvars, acvars, rqvars, pvars, avars, svars, bvars, dvars, lvars, xvars>>

\* collectAggregatedEvents: case <-ticker.C, _collect under the mutex: every entry is
\* appended to the returned slice and deleted from the map
CollectByRef ==
    /\ Len(collections) < MaxTicks
    /\ collections' = Append(collections,
                             { [event |-> eventsByRef[h],
                                keys |-> keySets[eventsByRef[h].Keys],
                                sources |-> inWindow[h]] : h \in DOMAIN eventsByRef })
    /\ eventsByRef' = EmptyMap
    /\ inWindow' = [h \in {} |-> {}]
    /\ UNCHANGED <<keySets, merged, ixvars, cfvars, stvars, evvars>>
    /\ UNCHANGED <<zvars, acvars, rqvars, pvars, avars, svars, bvars, dvars, lvars, xvars>>

InitTick ==
    /\ PipeInit /\ NoHistory /\ LateIdle /\ OneEventBatches /\ AggIdle /\ StoreIdle /\ BulkIdle /\ ServeIdle /\ LoadIdle /\ ExpiryIdle
    /\ IndexIdle /\ ConfigIdle /\ StorageIdle /\ NewEventIdle
    /\ TickIdle

NextTick ==
    \/ \E event \in ValidEvents : MergeByRef(event)
    \/ CollectByRef

SpecTick == InitTick /\ [][NextTick]_vars

\* the merge of the events with these numbers: keys, time and mode
KeysOfMerged(ids) == UNION { merged[i].Keys : i \in ids }
TimeOfMerged(ids) == Max({ merged[i].AccessTime : i \in ids })
ModeOfMerged(ids) ==
    IF \E i \in ids : merged[i].AccessMode = HashTagAccessModeWrite
    THEN HashTagAccessModeWrite ELSE HashTagAccessModeRead

\* in how many places the merged event number i is: entries of the map, collected events
PlacesOf(i) ==
    Cardinality({ h \in DOMAIN inWindow : i \in inWindow[h] })
    + Cardinality({ <<n, c>> \in UNION { {n} \X collections[n] : n \in 1..Len(collections) } :
                       i \in c.sources })

\* C28: the events _collect returns are the map's entries at one instant and the map
\* is empty right after; a tick yields at most one event per hash tag; every merged
\* event is in the map's entry of its hash tag until a tick collects it, and then in
\* that one collection only (none lost between windows, none collected twice); an
\* event merged after the tick starts a new entry and changes no collected event.
C28_TickAtomic ==
    /\ [](/\ \A n \in 1..Len(collections) : \A c, d \in collections[n] :
                (c.event.HashTag = d.event.HashTag) => c = d
          /\ \A i \in 1..Len(merged) : PlacesOf(i) = 1
          /\ \A n \in 1..Len(collections) : \A c \in collections[n] :
                /\ c.sources # {}
                /\ \A i \in c.sources : merged[i].HashTag = c.event.HashTag
                /\ c.keys = KeysOfMerged(c.sources)
                /\ c.event.AccessTime = TimeOfMerged(c.sources)
                /\ c.event.AccessMode = ModeOfMerged(c.sources)
                /\ keySets[c.event.Keys] = c.keys
          /\ \A h \in DOMAIN eventsByRef :
                /\ h \in DOMAIN inWindow
                /\ keySets[eventsByRef[h].Keys] = KeysOfMerged(inWindow[h]))
    /\ [][/\ CollectByRef =>
                /\ { c.event : c \in collections'[Len(collections')] }
                      = { eventsByRef[h] : h \in DOMAIN eventsByRef }
                /\ eventsByRef' = EmptyMap
          /\ \A event \in ValidEvents :
                (MergeByRef(event) /\ event.HashTag \notin DOMAIN eventsByRef) =>
                    /\ keySets'[eventsByRef'[event.HashTag].Keys] = event.Keys
                    /\ eventsByRef'[event.HashTag].AccessTime = event.AccessTime
                    /\ eventsByRef'[event.HashTag].AccessMode = event.AccessMode
                    /\ \A n \in 1..Len(collections) : \A c \in collections[n] :
                          c.event.Keys # eventsByRef'[event.HashTag].Keys]_vars

\* two ticks collected the same hash tag: the first a merge of two events, the second
\* an event merged after the first tick, with other keys
C28_Witness ==
    /\ Len(collections) = 2
    /\ \E c \in collections[1], d \in collections[2] :
          /\ c.event.HashTag = d.event.HashTag
          /\ Cardinality(c.sources) = 2
          /\ c.keys # d.keys

(***************************************************************************)
(* SpecCancel: loadDataByIDWithContext, a read raced by its context         *)
(***************************************************************************)
\* ctx.Err() of a completed context
CtxErrors == {"context canceled", "context deadline exceeded"}

\* the context completes (cancel is called or the deadline passes)
ctxDone(err) ==
    /\ cxCtx = "active"
    /\ cxCtx' = err
    /\ UNCHANGED <<cxTable, cxHashTag, cxReader, cxResult, cxCaller, cxRet>>
    /\ UNCHANGED <<hkvars, acvars, rqvars, pvars, avars, svars, bvars, dvars, lvars, xvars, hvars>>

\* the goroutine: model, err := loadDataByID(db, hashTag); it then stands at
\* ch <- loadResult{...} on the unbuffered channel
goLoadDataByID(dbErr) ==
    /\ cxReader = "reading"
    /\ cxResult' = loadDataByID(clients, cxTable, cxHashTag, dbErr)
    /\ cxReader' = "sending"
    /\ UNCHANGED <<cxTable, cxHashTag, cxCtx, cxCaller, cxRet>>
    /\ UNCHANGED <<hkvars, acvars, rqvars, pvars, avars, svars, bvars, dvars, lvars, xvars, hvars>>

\* select: case <-ctx.Done(): return nil, ctx.Err(); nothing receives from the
\* channel afterwards
selectCtxDone ==
    /\ cxCaller = "select"
    /\ cxCtx # "active"
    /\ cxRet' = [model |-> NoModel, err |-> cxCtx]
    /\ cxCaller' = "returned"
    /\ UNCHANGED <<cxTable, cxHashTag, cxCtx, cxReader, cxResult>>
    /\ UNCHANGED <<hkvars, acvars, rqvars, pvars, avars, svars, bvars, dvars, lvars, xvars, hvars>>

\* select: case r := <-loadResultCh: return r.model, r.err; the send of the
\* goroutine completes with the receive and the goroutine ends
selectLoadResult ==
    /\ cxCaller = "select"
    /\ cxReader = "sending"
    /\ cxRet' = cxResult
    /\ cxCaller' = "returned"
    /\ cxReader' = "exited"
    /\ UNCHANGED <<cxTable, cxHashTag, cxCtx, cxResult>>
    /\ UNCHANGED <<hkvars, acvars, rqvars, pvars, avars, svars, bvars, dvars, lvars, xvars, hvars>>

\* the call has started the goroutine and stands at the select; the context may
\* have completed before the call
InitCancel ==
    /\ PipeInit /\ NoHistory /\ KeysIdle /\ OneEventBatches /\ AggIdle /\ StoreIdle /\ BulkIdle /\ OthersIdle
    /\ cxTable \in [HashTags -> Rows]
    /\ cxHashTag \in HashTags
    /\ cxCtx \in {"active"} \cup CtxErrors
    /\ cxReader = "reading"
    /\ cxResult = NoLoadResult
    /\ cxCaller = "select"
    /\ cxRet = NoLoadResult

NextCancel ==
    \/ \E err \in CtxErrors : ctxDone(err)
    \/ \E dbErr \in SelectErrors : goLoadDataByID(dbErr)
    \/ selectCtxDone
    \/ selectLoadResult

SpecCancel == InitCancel /\ [][NextCancel]_vars

\* C35: a call that returned before the read delivered its result returned the
\* context's error and no document, and the goroutine of a call that returned
\* is never left at the send of its result, which nothing will receive
C35_CancelledRead ==
    /\ (cxCaller = "returned" /\ cxReader # "exited") =>
           cxRet = [model |-> NoModel, err |-> cxCtx]
    /\ ~(cxCaller = "returned" /\ cxReader = "sending")


(***************************************************************************)
(* SpecKeys: the room_hash_tag_keys row of one hash tag under               *)
(* upsertHashTagKeysRecordByEvent and the status setters                    *)
(***************************************************************************)
\* the versions of the row stay below this bound
MaxKeysVersion == 2

HashTagKeysStatusNeedSynced == "need_synced"
HashTagKeysStatusSynced == "synced"
HashTagKeysStatusCleaned == "cleaned"

\* the events of the call: keys, access time and write time; time 0 is the zero
\* time.Time
KeysEvents ==
    { [HashTag |-> "a", Keys |-> ks, AccessTime |-> at, WriteTime |-> wt] :
          ks \in SUBSET {"k1", "k2"}, at \in 0..MaxTime, wt \in 0..MaxTime }

\* the elements of a slice
ItemsOf(slice) == { slice[i] : i \in 1..Len(slice) }

\* utility.MergeStringSliceAndRemoveDuplicateItems: the items of both slices,
\* each once, in the order of their first occurrence
RECURSIVE RemoveDuplicateItems(_)
RemoveDuplicateItems(slice) ==
    IF slice = <<>> THEN <<>>
    ELSE LET front == RemoveDuplicateItems(SubSeq(slice, 1, Len(slice) - 1))
             last == slice[Len(slice)]
         IN  IF last \in ItemsOf(front) THEN front ELSE Append(front, last)
MergeStringSliceAndRemoveDuplicateItems(a, b) == RemoveDuplicateItems(a \o b)

\* a plausible slip: accessed_at follows every event with another access time
updateFromEventAnyTime(model, event, eventKeys) ==
    LET originKeys == model.Keys
        newKeys == MergeStringSliceAndRemoveDuplicateItems(originKeys, eventKeys)
        keys == Len(originKeys) # Len(newKeys)
        accessed == event.AccessTime # model.AccessedAt
        written == event.WriteTime > model.WrittenAt
        newStatus == IF keys \/ event.WriteTime # 0 THEN HashTagKeysStatusNeedSynced
                     ELSE IF model.Status = HashTagKeysStatusCleaned THEN HashTagKeysStatusSynced
                     ELSE ""
        status == newStatus # "" /\ newStatus # model.Status
    IN  [model |-> [model EXCEPT !.Keys = IF keys THEN newKeys ELSE @,
                                 !.AccessedAt = IF accessed THEN event.AccessTime ELSE @,
                                 !.WrittenAt = IF written THEN event.WriteTime ELSE @,
                                 !.Status = IF status THEN newStatus ELSE @],
         columns |-> (IF keys THEN {"keys"} ELSE {}) \cup
                     (IF accessed THEN {"accessed_at"} ELSE {}) \cup
                     (IF written THEN {"written_at"} ELSE {}) \cup
                     (IF status THEN {"status"} ELSE {})]

\* roomHashTagKeys.updateFromEvent: the model after the event and the columns to
\* update; eventKeys is event.Keys.ToSlice()
updateFromEvent(model, event, eventKeys) ==
    LET originKeys == model.Keys
        newKeys == MergeStringSliceAndRemoveDuplicateItems(originKeys, eventKeys)
        keys == Len(originKeys) # Len(newKeys)
        accessed == event.AccessTime > model.AccessedAt
        written == event.WriteTime > model.WrittenAt
        newStatus == IF keys \/ event.WriteTime # 0 THEN HashTagKeysStatusNeedSynced
                     ELSE IF model.Status = HashTagKeysStatusCleaned THEN HashTagKeysStatusSynced
                     ELSE ""
        status == newStatus # "" /\ newStatus # model.Status
    IN  [model |-> [model EXCEPT !.Keys = IF keys THEN newKeys ELSE @,
                                 !.AccessedAt = IF accessed THEN event.AccessTime ELSE @,
                                 !.WrittenAt = IF written THEN event.WriteTime ELSE @,
                                 !.Status = IF status THEN newStatus ELSE @],
         columns |-> (IF keys THEN {"keys"} ELSE {}) \cup
                     (IF accessed THEN {"accessed_at"} ELSE {}) \cup
                     (IF written THEN {"written_at"} ELSE {}) \cup
                     (IF status THEN {"status"} ELSE {})]

\* the column of a field of roomHashTagKeys
ColumnOf(field) ==
    CASE field = "Keys" -> "keys"
      [] field = "AccessedAt" -> "accessed_at"
      [] field = "WrittenAt" -> "written_at"
      [] field = "SyncedAt" -> "synced_at"
      [] field = "CreatedAt" -> "created_at"
      [] field = "UpdatedAt" -> "updated_at"
      [] field = "Status" -> "status"
      [] field = "Version" -> "version"
      [] OTHER -> "_"

\* Update of the listed columns of the row from the model
UpdateColumns(row, model, columns) ==
    [field \in DOMAIN row |-> IF ColumnOf(field) \in columns THEN model[field] ELSE row[field]]

\* upsertHashTagKeysRecordByEvent up to the Select of its transaction: the table
\* of the hash tag is resolved and the row is read into the model
KeysSelect(event, currentTime, dbErr) ==
    /\ hkPc \in {"idle", "done"}
    /\ hkRow.Version < MaxKeysVersion
    /\ hkEvent' = event
    /\ hkTime' = currentTime
    /\ LET query == DBClusterModel(clients, "room_hash_tag_keys", event.HashTag)
       IN  IF query.err # "nil"
           THEN hkRet' = query.err /\ hkPc' = "done" /\ hkModel' = NoKeysRow
           ELSE IF dbErr # "nil"
           THEN hkRet' = dbErr /\ hkPc' = "done" /\ hkModel' = NoKeysRow
           ELSE hkRet' = "none" /\ hkPc' = "selected" /\ hkModel' = hkRow
    /\ UNCHANGED hkRow
    /\ UNCHANGED <<cxvars, acvars, rqvars, pvars, avars, svars, bvars, dvars, lvars, xvars, hvars>>

\* the Select gave pg.ErrNoRows: a row of version 0 is inserted
KeysInsert(dbErr, eventKeys) ==
    /\ hkPc = "selected"
    /\ ~hkModel.exists
    /\ LET model == [exists |-> TRUE,
                     Keys |-> eventKeys,
                     AccessedAt |-> hkEvent.AccessTime,
                     WrittenAt |-> IF hkEvent.WriteTime # 0 THEN hkEvent.WriteTime ELSE 0,
                     SyncedAt |-> 0,
                     CreatedAt |-> hkTime,
                     UpdatedAt |-> hkTime,
                     Status |-> IF Cardinality(hkEvent.Keys) = 0 /\ hkEvent.WriteTime = 0
                                THEN HashTagKeysStatusSynced
                                ELSE HashTagKeysStatusNeedSynced,
                     Version |-> 0]
       IN  IF dbErr # "nil" \/ hkRow.exists
           THEN hkRet' = (IF dbErr # "nil" THEN dbErr ELSE "duplicate key") /\ UNCHANGED hkRow
           ELSE hkRet' = "nil" /\ hkRow' = model
    /\ hkPc' = "done"
    /\ UNCHANGED <<hkModel, hkEvent, hkTime>>
    /\ UNCHANGED <<cxvars, acvars, rqvars, pvars, avars, svars, bvars, dvars, lvars, xvars, hvars>>

\* the Select found the row: updateFromEvent, then the Update of the changed
\* columns, version and updated_at where version = originVersion
KeysUpdate(dbErr, eventKeys) ==
    /\ hkPc = "selected"
    /\ hkModel.exists
    /\ LET originVersion == hkModel.Version
           upd == updateFromEvent(hkModel, hkEvent, eventKeys)
           model == [upd.model EXCEPT !.Version = @ + 1, !.UpdatedAt = hkTime]
           toBeUpdatedColumns == upd.columns \cup {"version", "updated_at"}
           rowsAffected == IF hkRow.exists /\ hkRow.Version = originVersion THEN 1 ELSE 0
       IN  IF upd.columns = {}
           THEN hkRet' = "nil" /\ UNCHANGED hkRow
           ELSE IF dbErr # "nil"
           THEN hkRet' = dbErr /\ UNCHANGED hkRow
           ELSE IF rowsAffected # 1
           THEN hkRet' = "no rows is updated" /\ UNCHANGED hkRow
           ELSE hkRet' = "nil" /\ hkRow' = UpdateColumns(hkRow, model, toBeUpdatedColumns)
    /\ hkPc' = "done"
    /\ UNCHANGED <<hkModel, hkEvent, hkTime>>
    /\ UNCHANGED <<cxvars, acvars, rqvars, pvars, avars, svars, bvars, dvars, lvars, xvars, hvars>>

\* roomHashTagKeys.SetStatusAsSynced of another caller, on a model of the row's
\* version
SetStatusAsSynced(t) ==
    /\ hkRow.exists
    /\ hkRow.Version < MaxKeysVersion
    /\ hkRow' = [hkRow EXCEPT !.Status = HashTagKeysStatusSynced, !.SyncedAt = t,
                              !.UpdatedAt = t, !.Version = @ + 1]
    /\ UNCHANGED <<hkModel, hkEvent, hkTime, hkPc, hkRet>>
    /\ UNCHANGED <<cxvars, acvars, rqvars, pvars, avars, svars, bvars, dvars, lvars, xvars, hvars>>

\* roomHashTagKeys.SetStatusAsCleaned of another caller, on a model of the row's
\* version
SetStatusAsCleaned(t) ==
    /\ hkRow.exists
    /\ hkRow.Version < MaxKeysVersion
    /\ hkRow' = [hkRow EXCEPT !.Status = HashTagKeysStatusCleaned,
                              !.UpdatedAt = t, !.Version = @ + 1]
    /\ UNCHANGED <<hkModel, hkEvent, hkTime, hkPc, hkRet>>
    /\ UNCHANGED <<cxvars, acvars, rqvars, pvars, avars, svars, bvars, dvars, lvars, xvars, hvars>>

\* no row yet and no call under way
InitKeys ==
    /\ PipeInit /\ NoHistory /\ CancelIdle /\ OneEventBatches /\ AggIdle /\ StoreIdle /\ BulkIdle /\ OthersIdle
    /\ hkRow = NoKeysRow
    /\ hkModel = NoKeysRow
    /\ hkEvent = NoKeysEvent
    /\ hkTime = 0
    /\ hkPc = "idle"
    /\ hkRet = "none"

NextKeys ==
    \/ \E event \in KeysEvents, dbErr \in SelectErrors : KeysSelect(event, MaxTime, dbErr)
    \/ \E dbErr \in SelectErrors, eventKeys \in Perms(hkEvent.Keys) : KeysInsert(dbErr, eventKeys)
    \/ \E dbErr \in SelectErrors, eventKeys \in Perms(hkEvent.Keys) : KeysUpdate(dbErr, eventKeys)
    \/ SetStatusAsSynced(MaxTime)
    \/ SetStatusAsCleaned(MaxTime)

SpecKeys == InitKeys /\ [][NextKeys]_vars

\* the status the claim gives a row after an event
StatusAfter(row, event) ==
    IF event.Keys \ ItemsOf(row.Keys) # {} \/ event.WriteTime # 0 THEN "need_synced"
    ELSE IF row.Status = "cleaned" THEN "synced"
    ELSE row.Status
\* the later of two times
Later(a, b) == IF a > b THEN a ELSE b
\* the event changes a column of the row
Touches(row, event) ==
    \/ event.Keys \ ItemsOf(row.Keys) # {}
    \/ event.AccessTime > row.AccessedAt
    \/ event.WriteTime > row.WrittenAt
    \/ StatusAfter(row, event) # row.Status

\* C36: applying an event to an existing row sets status need_synced when the
\* event adds a key or carries a write time, synced when it does neither and the
\* row is cleaned, and leaves it otherwise; the keys become the union with the
\* event's keys, accessed_at and written_at the later of the row's and the
\* event's, version grows by exactly 1 if a column changed and not at all
\* otherwise, and a version changed since the read gives errNoRowsUpdated with
\* the row unchanged
C36_KeysLifecycle ==
    [][\A dbErr \in SelectErrors : \A eventKeys \in Perms(hkEvent.Keys) :
          KeysUpdate(dbErr, eventKeys) =>
              /\ ItemsOf(hkRow.Keys) \subseteq ItemsOf(hkRow'.Keys)
              /\ hkRow'.AccessedAt >= hkRow.AccessedAt
              /\ hkRow'.WrittenAt >= hkRow.WrittenAt
              /\ hkRow'.Version \in {hkRow.Version, hkRow.Version + 1}
              /\ hkRet' # "nil" => hkRow' = hkRow
              /\ (dbErr = "nil" /\ hkRow.Version # hkModel.Version /\ Touches(hkModel, hkEvent)) =>
                     hkRet' = "no rows is updated" /\ hkRow' = hkRow
              /\ (dbErr = "nil" /\ hkRow.Version = hkModel.Version) =>
                     /\ hkRet' = "nil"
                     /\ hkRow'.Status = StatusAfter(hkRow, hkEvent)
                     /\ ItemsOf(hkRow'.Keys) = ItemsOf(hkRow.Keys) \cup hkEvent.Keys
                     /\ Len(hkRow'.Keys) = Cardinality(ItemsOf(hkRow'.Keys))
                     /\ hkRow'.AccessedAt = Later(hkRow.AccessedAt, hkEvent.AccessTime)
                     /\ hkRow'.WrittenAt = Later(hkRow.WrittenAt, hkEvent.WriteTime)
                     /\ hkRow'.Version = IF Touches(hkRow, hkEvent) THEN hkRow.Version + 1
                                         ELSE hkRow.Version
                     /\ ~Touches(hkRow, hkEvent) => hkRow' = hkRow]_vars

\* an event without new key and without write time has made a cleaned row synced
\* and raised its version by one
C36_Witness ==
    /\ hkPc = "done" /\ hkRet = "nil"
    /\ hkModel.exists /\ hkModel.Status = "cleaned"
    /\ hkEvent.WriteTime = 0 /\ hkEvent.Keys \subseteq ItemsOf(hkModel.Keys)
    /\ hkRow.Status = "synced"
    /\ hkRow.Version = hkModel.Version + 1
    /\ hkRow.Keys # <<>>

====
